---- MODULE Spec2Model ----
(***************************************************************************)
(* A model of the OBDD diagram editor of obdd_visualizer.py: the Node      *)
(* class, OBDDSerializer.to_dict / from_dict, and the event handlers of    *)
(* OBDDVisualizer (pointer events, keyboard/button commands, import).      *)
(*                                                                         *)
(* Python values are modelled as follows.                                  *)
(*   - self.nodes, an insertion-ordered dict id -> Node, is a sequence of  *)
(*     node records in insertion order; the key of a record is its id.     *)
(*   - None, where an id is expected, is the integer None (-1); the ids    *)
(*     the model uses are non-negative.                                    *)
(*   - a JSON value is a record with a field "type" ("dict", "list",       *)
(*     "null", "other"); the keys of a JSON object are the other fields of *)
(*     the record, so that a missing key is a missing field.               *)
(*   - rendering (canvas items, cursor, window size) is not modelled.      *)
(***************************************************************************)
EXTENDS Integers, Sequences, FiniteSets, TLC

VARIABLES
    nodes,                  \* self.nodes
    next_node_id,           \* self.next_node_id
    next_var_index,         \* self.next_var_index
    selected_node,          \* self.selected_node (primary), or None
    selected_nodes,         \* self.selected_nodes
    dragging,               \* self.dragging
    drag_start_x,           \* self.drag_start_x
    drag_start_y,           \* self.drag_start_y
    connecting_mode,        \* self.connecting_mode
    connecting_edge_type,   \* self.connecting_edge_type (0, 1 or None)
    connecting_from_node,   \* self.connecting_from_node
    selecting_box,          \* self.selecting_box
    selection_start_x,      \* self.selection_start_x
    selection_start_y,      \* self.selection_start_y
    selection_rect,         \* self.selection_rect is not None
    selection_additive,     \* self.selection_additive
    button_down,            \* environment: mouse button 1 is held on the canvas
    last,                   \* history: the handler that ran last and what it reported
    events,                 \* history: the number of events handled so far
    deleted,                \* history: the ids delete_node and clear_all removed
    gesture,                \* history: the pointer gesture (specification SpecPointer)
    io                      \* the serializer's input and output (specification SpecSer)

graph == <<nodes, next_node_id, next_var_index>>
selection == <<selected_node, selected_nodes>>
drag == <<dragging, drag_start_x, drag_start_y>>
connecting == <<connecting_mode, connecting_edge_type, connecting_from_node>>
box == <<selecting_box, selection_start_x, selection_start_y, selection_rect,
         selection_additive>>
vars == <<graph, selection, drag, connecting, box, button_down, last, events,
          deleted, gesture, io>>

None == -1

-----------------------------------------------------------------------------
(* Program constants                                                       *)

DECISION_NODE_RADIUS == 25
TERMINAL_NODE_SIZE == 40
DEFAULT_CANVAS_WIDTH == 800
DEFAULT_CANVAS_HEIGHT == 600

canvas_width == DEFAULT_CANVAS_WIDTH
canvas_height == DEFAULT_CANVAS_HEIGHT

-----------------------------------------------------------------------------
(* Bounds of the model                                                     *)

\* add_decision_node is disabled once next_node_id reaches MaxNodeId
MaxNodeId == 4
\* the editor handles at most MaxEvents events in a behaviour
MaxEvents == 6
\* the longest nodes list of a document given to from_dict in SpecSer
MaxDocLen == 3
\* the largest target id given to Node.add_edge in SpecNode
MaxTarget == 7
\* get_next_variable_label is called in SpecLabel until the index reaches this
MaxLabelIndex == 60

-----------------------------------------------------------------------------
(* The insertion-ordered dict self.nodes                                   *)

Keys(ns) == {ns[i].id : i \in DOMAIN ns}

Get(ns, k) == ns[CHOOSE i \in DOMAIN ns : ns[i].id = k]

\* ns[node.id] = node
Put(ns, node) ==
    IF node.id \in Keys(ns)
    THEN [i \in DOMAIN ns |-> IF ns[i].id = node.id THEN node ELSE ns[i]]
    ELSE Append(ns, node)

\* del ns[k]
Del(ns, k) == SelectSeq(ns, LAMBDA n : n.id # k)

SetMin(S) == CHOOSE m \in S : \A n \in S : m <= n
SetMax(S) == CHOOSE m \in S : \A n \in S : n <= m

-----------------------------------------------------------------------------
(* class Node                                                              *)

Node(node_id, x, y, label, is_terminal) ==
    [id |-> node_id, x |-> x, y |-> y, label |-> label,
     is_terminal |-> is_terminal, edges_out |-> <<>>, is_root |-> FALSE]

\* mutant: the edge of the same kind is not removed first
add_edge_Appends(node, target_node_id, edge_type) ==
    [node EXCEPT !.edges_out = Append(@, <<target_node_id, edge_type>>)]

add_edge(node, target_node_id, edge_type) ==
    [node EXCEPT !.edges_out =
        Append(SelectSeq(@, LAMBDA e : e[2] # edge_type),
               <<target_node_id, edge_type>>)]

clear_edges(node) == [node EXCEPT !.edges_out = <<>>]

get_edge_target(node, edge_type) ==
    LET hits == {i \in DOMAIN node.edges_out : node.edges_out[i][2] = edge_type}
    IN  IF hits = {} THEN None ELSE node.edges_out[SetMin(hits)][1]

-----------------------------------------------------------------------------
(* class OBDDSerializer                                                    *)

RequiredKeys == <<"id", "label", "x", "y", "is_terminal">>

\* entry.get(key): the value, or None when the key is absent (null is None too)
EntryGet(entry, key) == IF key \in DOMAIN entry THEN entry[key] ELSE None

\* mutant: low and high are written to each other's key
ToDictEntry_Swapped(node) ==
    LET base == [type |-> "dict", id |-> node.id, label |-> node.label,
                 x |-> node.x, y |-> node.y, is_terminal |-> node.is_terminal]
    IN  IF node.is_terminal
        THEN base
        ELSE [type |-> "dict", id |-> node.id, label |-> node.label,
              x |-> node.x, y |-> node.y, is_terminal |-> node.is_terminal,
              low |-> get_edge_target(node, 1),
              high |-> get_edge_target(node, 0)]

ToDictEntry(node) ==
    LET base == [type |-> "dict", id |-> node.id, label |-> node.label,
                 x |-> node.x, y |-> node.y, is_terminal |-> node.is_terminal]
    IN  IF node.is_terminal
        THEN base
        ELSE [type |-> "dict", id |-> node.id, label |-> node.label,
              x |-> node.x, y |-> node.y, is_terminal |-> node.is_terminal,
              low |-> get_edge_target(node, 0),
              high |-> get_edge_target(node, 1)]

to_dict(ns, root_id) ==
    [type |-> "dict",
     nodes |-> [type |-> "list", items |-> [i \in DOMAIN ns |-> ToDictEntry(ns[i])]],
     root |-> root_id]

Raise(rule, message) ==
    [rule |-> rule, error |-> message, nodes |-> <<>>, root_id |-> None]

\* the first key of RequiredKeys the entry lacks, 0 when it has them all
FirstMissing(entry) ==
    LET miss == {k \in DOMAIN RequiredKeys : RequiredKeys[k] \notin DOMAIN entry}
    IN  IF miss = {} THEN 0 ELSE SetMin(miss)

\* mutant: a repeated id overwrites the earlier node instead of raising
RECURSIVE BuildNodes_NoDuplicateCheck(_, _, _)
BuildNodes_NoDuplicateCheck(nodes_data, i, built) ==
    IF i > Len(nodes_data) THEN [rule |-> 0, error |-> "", nodes |-> built, root_id |-> None]
    ELSE LET entry == nodes_data[i] IN
         IF entry.type # "dict"
         THEN Raise(2, "Each node entry must be an object.")
         ELSE IF FirstMissing(entry) # 0
         THEN Raise(2, "Node is missing '" \o RequiredKeys[FirstMissing(entry)] \o "'.")
         ELSE BuildNodes_NoDuplicateCheck(nodes_data, i + 1,
                         Put(built, Node(entry.id, entry.x, entry.y, entry.label,
                                         entry.is_terminal)))

\* the first loop of from_dict, from entry i on, with the nodes built so far
RECURSIVE BuildNodes(_, _, _)
BuildNodes(nodes_data, i, built) ==
    IF i > Len(nodes_data) THEN [rule |-> 0, error |-> "", nodes |-> built, root_id |-> None]
    ELSE LET entry == nodes_data[i] IN
         IF entry.type # "dict"
         THEN Raise(2, "Each node entry must be an object.")
         ELSE IF FirstMissing(entry) # 0
         THEN Raise(2, "Node is missing '" \o RequiredKeys[FirstMissing(entry)] \o "'.")
         ELSE IF entry.id \in Keys(built)
         THEN Raise(3, "Duplicate node id " \o ToString(entry.id) \o ".")
         ELSE BuildNodes(nodes_data, i + 1,
                         Put(built, Node(entry.id, entry.x, entry.y, entry.label,
                                         entry.is_terminal)))

\* mutant: low and high are applied without looking the target up
RECURSIVE ApplyEdges_Unchecked(_, _, _)
ApplyEdges_Unchecked(nodes_data, i, ns) ==
    IF i > Len(nodes_data) THEN [rule |-> 0, error |-> "", nodes |-> ns, root_id |-> None]
    ELSE LET entry == nodes_data[i]
             node == Get(ns, entry.id)
             low == EntryGet(entry, "low")
             high == EntryGet(entry, "high")
             node1 == IF low # None THEN add_edge(node, low, 0) ELSE node
             node2 == IF high # None THEN add_edge(node1, high, 1) ELSE node1
         IN  IF node.is_terminal
             THEN ApplyEdges_Unchecked(nodes_data, i + 1, ns)
             ELSE ApplyEdges_Unchecked(nodes_data, i + 1, Put(ns, node2))

\* mutant: terminal entries are not skipped
RECURSIVE ApplyEdges_TerminalsToo(_, _, _)
ApplyEdges_TerminalsToo(nodes_data, i, ns) ==
    IF i > Len(nodes_data) THEN [rule |-> 0, error |-> "", nodes |-> ns, root_id |-> None]
    ELSE LET entry == nodes_data[i]
             node == Get(ns, entry.id)
             low == EntryGet(entry, "low")
             high == EntryGet(entry, "high")
             node1 == IF low # None THEN add_edge(node, low, 0) ELSE node
             node2 == IF high # None THEN add_edge(node1, high, 1) ELSE node1
         IN  IF low # None /\ low \notin Keys(ns)
             THEN Raise(5, "Low target " \o ToString(low) \o " does not exist.")
             ELSE IF high # None /\ high \notin Keys(ns)
             THEN Raise(5, "High target " \o ToString(high) \o " does not exist.")
             ELSE ApplyEdges_TerminalsToo(nodes_data, i + 1, Put(ns, node2))

\* the second loop of from_dict, from entry i on
RECURSIVE ApplyEdges(_, _, _)
ApplyEdges(nodes_data, i, ns) ==
    IF i > Len(nodes_data) THEN [rule |-> 0, error |-> "", nodes |-> ns, root_id |-> None]
    ELSE LET entry == nodes_data[i]
             node == Get(ns, entry.id)
             low == EntryGet(entry, "low")
             high == EntryGet(entry, "high")
             node1 == IF low # None THEN add_edge(node, low, 0) ELSE node
             node2 == IF high # None THEN add_edge(node1, high, 1) ELSE node1
         IN  IF node.is_terminal
             THEN ApplyEdges(nodes_data, i + 1, ns)
             ELSE IF low # None /\ low \notin Keys(ns)
             THEN Raise(5, "Low target " \o ToString(low) \o " does not exist.")
             ELSE IF high # None /\ high \notin Keys(ns)
             THEN Raise(5, "High target " \o ToString(high) \o " does not exist.")
             ELSE ApplyEdges(nodes_data, i + 1, Put(ns, node2))

from_dict(data) ==
    IF data.type # "dict" THEN Raise(1, "JSON root must be an object.")
    ELSE IF "nodes" \notin DOMAIN data \/ data.nodes.type # "list"
    THEN Raise(1, "JSON must include a 'nodes' list.")
    ELSE LET nodes_data == data.nodes.items
             pass1 == BuildNodes(nodes_data, 1, <<>>)
             terminal_labels == {pass1.nodes[i].label :
                                   i \in {j \in DOMAIN pass1.nodes : pass1.nodes[j].is_terminal}}
             pass2 == ApplyEdges(nodes_data, 1, pass1.nodes)
             root_id == EntryGet(data, "root")
         IN  IF pass1.rule # 0 THEN pass1
             ELSE IF "0" \notin terminal_labels \/ "1" \notin terminal_labels
             THEN Raise(4, "Import requires terminal nodes labeled '0' and '1'.")
             ELSE IF pass2.rule # 0 THEN pass2
             ELSE IF root_id # None /\ root_id \notin Keys(pass2.nodes)
             THEN Raise(6, "Root node id does not exist.")
             ELSE [rule |-> 0, error |-> "", nodes |-> pass2.nodes, root_id |-> root_id]

get_root_id(ns) ==
    LET roots == {i \in DOMAIN ns : ns[i].is_root}
    IN  IF roots = {} THEN None ELSE ns[SetMin(roots)].id

-----------------------------------------------------------------------------
(* class OBDDVisualizer: helpers                                           *)

Report(op, outcome) == [op |-> op, outcome |-> outcome]

VarLabels == <<"p", "q", "r", "s", "t", "u", "v", "w", "x", "y", "z">>

\* mutant: past the letters the suffix counts from 0
get_next_variable_label_FromZero(var_index) ==
    IF var_index < Len(VarLabels)
    THEN VarLabels[var_index + 1]
    ELSE "p" \o ToString(var_index - Len(VarLabels))

\* the label get_next_variable_label returns at index var_index
get_next_variable_label(var_index) ==
    IF var_index < Len(VarLabels)
    THEN VarLabels[var_index + 1]
    ELSE "p" \o ToString(var_index - Len(VarLabels) + 1)

InCanvas(x, y) == 0 <= x /\ x <= canvas_width /\ 0 <= y /\ y <= canvas_height

Hit(node, x, y) ==
    IF node.is_terminal
    THEN LET half_size == TERMINAL_NODE_SIZE \div 2
         IN  /\ node.x - half_size <= x /\ x <= node.x + half_size
             /\ node.y - half_size <= y /\ y <= node.y + half_size
    ELSE LET dx == x - node.x
             dy == y - node.y
         IN  dx * dx + dy * dy <= DECISION_NODE_RADIUS * DECISION_NODE_RADIUS

find_node_at(ns, x, y) ==
    LET hits == {i \in DOMAIN ns : Hit(ns[i], x, y)}
    IN  IF hits = {} THEN None ELSE ns[SetMin(hits)].id

\* next(iter(s), None): any member of s, None when s is empty
NextIter(s) == IF s = {} THEN {None} ELSE s

\* the assignments cancel_operation makes
CancelConnecting ==
    /\ connecting_mode' = FALSE
    /\ connecting_edge_type' = None
    /\ connecting_from_node' = None

\* the reset delete_node, clear_all and load_from_import share
ResetInteraction ==
    /\ selected_node' = None
    /\ selected_nodes' = {}
    /\ CancelConnecting
    /\ selecting_box' = FALSE
    /\ selection_rect' = FALSE
    /\ UNCHANGED <<selection_start_x, selection_start_y, selection_additive>>

-----------------------------------------------------------------------------
(* Inputs                                                                  *)

Terminal0X == (canvas_width * 2) \div 10
Terminal1X == (canvas_width * 8) \div 10
TerminalY == (canvas_height * 83) \div 100
DefaultX == canvas_width \div 2
DefaultY == canvas_height \div 3

\* the canvas points of the pointer events
PointerPoints == {<<Terminal0X, TerminalY>>, <<DefaultX, DefaultY>>}

\* simpledialog.askstring: None (cancel), or the text, given stripped
Cancelled == "<None>"
AskStringResults == {Cancelled, "", "a"}

-----------------------------------------------------------------------------
(* Initial state: __init__ and create_initial_nodes                        *)

IoIdle == [phase |-> "idle"]

\* no press yet: the press point (px, py), the last pointer position (x, y),
\* the nodes and the selection right after the press, and whether the
\* selection is the one the last selection box left
NoGesture ==
    [px |-> 0, py |-> 0, x |-> 0, y |-> 0, nodes |-> <<>>, selected |-> {},
     boxed |-> FALSE]

create_initial_nodes ==
    <<Node(0, Terminal0X, TerminalY, "0", TRUE),
      Node(1, Terminal1X, TerminalY, "1", TRUE)>>

InitEditor ==
    /\ nodes = create_initial_nodes
    /\ next_node_id = 2
    /\ next_var_index = 0
    /\ selected_node = None
    /\ selected_nodes = {}
    /\ dragging = FALSE
    /\ drag_start_x = 0
    /\ drag_start_y = 0
    /\ connecting_mode = FALSE
    /\ connecting_edge_type = None
    /\ connecting_from_node = None
    /\ selecting_box = FALSE
    /\ selection_start_x = 0
    /\ selection_start_y = 0
    /\ selection_rect = FALSE
    /\ selection_additive = FALSE
    /\ button_down = FALSE
    /\ last = Report("init", "")
    /\ events = 0
    /\ deleted = [session |-> {}, since_import |-> {}]
    /\ gesture = NoGesture

Init == InitEditor /\ io = IoIdle

-----------------------------------------------------------------------------
(* Commands                                                                *)

\* mutant: the index is consumed when the label is suggested
add_decision_node_ConsumesOnPrompt(label_input) ==
    LET near == selected_node # None /\ selected_node # 0
                /\ selected_node \in Keys(nodes)
        x == IF near THEN Get(nodes, selected_node).x ELSE canvas_width \div 2
        y == IF near THEN Get(nodes, selected_node).y - 80 ELSE canvas_height \div 3
        suggested_label == get_next_variable_label(next_var_index)
        label == IF label_input = "" THEN suggested_label ELSE label_input
    IN  IF label_input = Cancelled
        THEN /\ last' = Report("add_decision_node", "Add node cancelled")
             /\ next_var_index' = next_var_index + 1
             /\ UNCHANGED <<nodes, next_node_id, selection, drag, connecting, box,
                            button_down, io>>
        ELSE /\ next_node_id < MaxNodeId
             /\ InCanvas(x, y)
             /\ next_var_index' = next_var_index + 1
             /\ next_node_id' = next_node_id + 1
             /\ nodes' = Put(nodes, Node(next_node_id, x, y, label, FALSE))
             /\ last' = Report("add_decision_node", "Added decision node")
             /\ UNCHANGED <<selection, drag, connecting, box, button_down, io>>

\* mutant: the index advances only when the suggested label is used
add_decision_node_AdvancesOnDefault(label_input) ==
    LET near == selected_node # None /\ selected_node # 0
                /\ selected_node \in Keys(nodes)
        x == IF near THEN Get(nodes, selected_node).x ELSE canvas_width \div 2
        y == IF near THEN Get(nodes, selected_node).y - 80 ELSE canvas_height \div 3
        suggested_label == get_next_variable_label(next_var_index)
        label == IF label_input = "" THEN suggested_label ELSE label_input
    IN  IF label_input = Cancelled
        THEN /\ last' = Report("add_decision_node", "Add node cancelled")
             /\ UNCHANGED <<graph, selection, drag, connecting, box, button_down, io>>
        ELSE /\ next_node_id < MaxNodeId
             /\ InCanvas(x, y)
             /\ next_var_index' = IF label = suggested_label THEN next_var_index + 1
                                                               ELSE next_var_index
             /\ next_node_id' = next_node_id + 1
             /\ nodes' = Put(nodes, Node(next_node_id, x, y, label, FALSE))
             /\ last' = Report("add_decision_node", "Added decision node")
             /\ UNCHANGED <<selection, drag, connecting, box, button_down, io>>

add_decision_node(label_input) ==
    LET near == selected_node # None /\ selected_node # 0
                /\ selected_node \in Keys(nodes)
        x == IF near THEN Get(nodes, selected_node).x ELSE canvas_width \div 2
        y == IF near THEN Get(nodes, selected_node).y - 80 ELSE canvas_height \div 3
        suggested_label == get_next_variable_label(next_var_index)
        label == IF label_input = "" THEN suggested_label ELSE label_input
    IN  IF label_input = Cancelled
        THEN /\ last' = Report("add_decision_node", "Add node cancelled")
             /\ UNCHANGED <<graph, selection, drag, connecting, box, button_down, io>>
        ELSE /\ next_node_id < MaxNodeId
             /\ InCanvas(x, y)
             /\ next_var_index' = next_var_index + 1
             /\ next_node_id' = next_node_id + 1
             /\ nodes' = Put(nodes, Node(next_node_id, x, y, label, FALSE))
             /\ last' = Report("add_decision_node", "Added decision node")
             /\ UNCHANGED <<selection, drag, connecting, box, button_down, io>>

\* mutant: the previous root is not cleared
set_root_node_KeepPrevious ==
    IF selected_node = None
    THEN /\ last' = Report("set_root_node", "showwarning: No Selection")
         /\ UNCHANGED <<graph, selection, drag, connecting, box, button_down, io>>
    ELSE /\ nodes' = [i \in DOMAIN nodes |->
                        [nodes[i] EXCEPT !.is_root = (@ \/ nodes[i].id = selected_node)]]
         /\ last' = Report("set_root_node", "Set as root node")
         /\ UNCHANGED <<next_node_id, next_var_index, selection, drag, connecting,
                        box, button_down, io>>

\* mutant: the previous root is cleared before the selection is looked at
set_root_node_ClearsFirst ==
    IF selected_node = None
    THEN /\ nodes' = [i \in DOMAIN nodes |-> [nodes[i] EXCEPT !.is_root = FALSE]]
         /\ last' = Report("set_root_node", "showwarning: No Selection")
         /\ UNCHANGED <<next_node_id, next_var_index, selection, drag, connecting,
                        box, button_down, io>>
    ELSE /\ nodes' = [i \in DOMAIN nodes |->
                        [nodes[i] EXCEPT !.is_root = (nodes[i].id = selected_node)]]
         /\ last' = Report("set_root_node", "Set as root node")
         /\ UNCHANGED <<next_node_id, next_var_index, selection, drag, connecting,
                        box, button_down, io>>

\* mutant: a terminal is not accepted as root
set_root_node_DecisionOnly ==
    IF selected_node = None
    THEN /\ last' = Report("set_root_node", "showwarning: No Selection")
         /\ UNCHANGED <<graph, selection, drag, connecting, box, button_down, io>>
    ELSE IF Get(nodes, selected_node).is_terminal
    THEN /\ last' = Report("set_root_node", "showwarning: Invalid Operation")
         /\ UNCHANGED <<graph, selection, drag, connecting, box, button_down, io>>
    ELSE /\ nodes' = [i \in DOMAIN nodes |->
                        [nodes[i] EXCEPT !.is_root = (nodes[i].id = selected_node)]]
         /\ last' = Report("set_root_node", "Set as root node")
         /\ UNCHANGED <<next_node_id, next_var_index, selection, drag, connecting,
                        box, button_down, io>>

set_root_node ==
    IF selected_node = None
    THEN /\ last' = Report("set_root_node", "showwarning: No Selection")
         /\ UNCHANGED <<graph, selection, drag, connecting, box, button_down, io>>
    ELSE /\ nodes' = [i \in DOMAIN nodes |->
                        [nodes[i] EXCEPT !.is_root = (nodes[i].id = selected_node)]]
         /\ last' = Report("set_root_node", "Set as root node")
         /\ UNCHANGED <<next_node_id, next_var_index, selection, drag, connecting,
                        box, button_down, io>>

\* mutant: a terminal is accepted as the source
start_edge_connection_AnySource(edge_type) ==
    IF selected_node = None
    THEN /\ last' = Report("start_edge_connection", "showwarning: No Selection")
         /\ UNCHANGED <<graph, selection, drag, connecting, box, button_down, io>>
    ELSE /\ connecting_mode' = TRUE
         /\ connecting_edge_type' = edge_type
         /\ connecting_from_node' = selected_node
         /\ last' = Report("start_edge_connection", "Click on target node to connect")
         /\ UNCHANGED <<graph, selection, drag, box, button_down, io>>

start_edge_connection(edge_type) ==
    IF selected_node = None
    THEN /\ last' = Report("start_edge_connection", "showwarning: No Selection")
         /\ UNCHANGED <<graph, selection, drag, connecting, box, button_down, io>>
    ELSE IF Get(nodes, selected_node).is_terminal
    THEN /\ last' = Report("start_edge_connection", "showwarning: Invalid Operation")
         /\ UNCHANGED <<graph, selection, drag, connecting, box, button_down, io>>
    ELSE /\ connecting_mode' = TRUE
         /\ connecting_edge_type' = edge_type
         /\ connecting_from_node' = selected_node
         /\ last' = Report("start_edge_connection", "Click on target node to connect")
         /\ UNCHANGED <<graph, selection, drag, box, button_down, io>>

delete_outgoing_edges ==
    IF selected_node = None
    THEN /\ last' = Report("delete_outgoing_edges", "showwarning: No Selection")
         /\ UNCHANGED <<graph, selection, drag, connecting, box, button_down, io>>
    ELSE LET node == Get(nodes, selected_node) IN
         IF node.edges_out # <<>>
         THEN /\ nodes' = Put(nodes, clear_edges(node))
              /\ last' = Report("delete_outgoing_edges", "Deleted outgoing edges")
              /\ UNCHANGED <<next_node_id, next_var_index, selection, drag, connecting,
                             box, button_down, io>>
         ELSE /\ last' = Report("delete_outgoing_edges", "Node has no outgoing edges")
              /\ UNCHANGED <<graph, selection, drag, connecting, box, button_down, io>>

\* mutant: the edges of the other nodes are left as they are
DeleteFrom_KeepIncoming(ns, node_id) ==
    LET was_root == Get(ns, node_id).is_root
        remaining == Del(ns, node_id)
    IN  IF was_root
        THEN [i \in DOMAIN remaining |-> [remaining[i] EXCEPT !.is_root = FALSE]]
        ELSE remaining

\* the nodes delete_node leaves when it deletes node_id
DeleteFrom(ns, node_id) ==
    LET was_root == Get(ns, node_id).is_root
        cleaned == [i \in DOMAIN ns |->
                      [ns[i] EXCEPT !.edges_out =
                          SelectSeq(@, LAMBDA e : e[1] # node_id)]]
        remaining == Del(cleaned, node_id)
    IN  IF was_root
        THEN [i \in DOMAIN remaining |-> [remaining[i] EXCEPT !.is_root = FALSE]]
        ELSE remaining

\* mutant: after the deletion the next id is one more than the largest id left
delete_node_CompactsIds(answer) ==
    IF selected_node = None
    THEN /\ last' = Report("delete_node", "showwarning: No Selection")
         /\ UNCHANGED <<graph, selection, drag, connecting, box, button_down, io>>
    ELSE IF selected_node \notin Keys(nodes)
    THEN /\ last' = Report("delete_node", "Selected node not found")
         /\ UNCHANGED <<graph, selection, drag, connecting, box, button_down, io>>
    ELSE IF Get(nodes, selected_node).is_terminal
    THEN /\ last' = Report("delete_node", "showwarning: Invalid Operation")
         /\ UNCHANGED <<graph, selection, drag, connecting, box, button_down, io>>
    ELSE IF ~answer
    THEN /\ last' = Report("delete_node", "askyesno: no")
         /\ UNCHANGED <<graph, selection, drag, connecting, box, button_down, io>>
    ELSE /\ nodes' = DeleteFrom(nodes, selected_node)
         /\ next_node_id' = SetMax(Keys(DeleteFrom(nodes, selected_node))) + 1
         /\ ResetInteraction
         /\ last' = Report("delete_node", "Deleted node")
         /\ UNCHANGED <<next_var_index, drag, button_down, io>>

\* mutant: the pending connection is not cancelled
delete_node_KeepsConnecting(answer) ==
    IF selected_node = None
    THEN /\ last' = Report("delete_node", "showwarning: No Selection")
         /\ UNCHANGED <<graph, selection, drag, connecting, box, button_down, io>>
    ELSE IF selected_node \notin Keys(nodes)
    THEN /\ last' = Report("delete_node", "Selected node not found")
         /\ UNCHANGED <<graph, selection, drag, connecting, box, button_down, io>>
    ELSE IF Get(nodes, selected_node).is_terminal
    THEN /\ last' = Report("delete_node", "showwarning: Invalid Operation")
         /\ UNCHANGED <<graph, selection, drag, connecting, box, button_down, io>>
    ELSE IF ~answer
    THEN /\ last' = Report("delete_node", "askyesno: no")
         /\ UNCHANGED <<graph, selection, drag, connecting, box, button_down, io>>
    ELSE /\ nodes' = DeleteFrom(nodes, selected_node)
         /\ selected_node' = None
         /\ selected_nodes' = {}
         /\ selecting_box' = FALSE
         /\ selection_rect' = FALSE
         /\ UNCHANGED <<connecting, selection_start_x, selection_start_y,
                        selection_additive>>
         /\ last' = Report("delete_node", "Deleted node")
         /\ UNCHANGED <<next_node_id, next_var_index, drag, button_down, io>>

\* mutant: answering no resets the selection and the modes
delete_node_NoDeselects(answer) ==
    IF selected_node = None
    THEN /\ last' = Report("delete_node", "showwarning: No Selection")
         /\ UNCHANGED <<graph, selection, drag, connecting, box, button_down, io>>
    ELSE IF selected_node \notin Keys(nodes)
    THEN /\ last' = Report("delete_node", "Selected node not found")
         /\ UNCHANGED <<graph, selection, drag, connecting, box, button_down, io>>
    ELSE IF Get(nodes, selected_node).is_terminal
    THEN /\ last' = Report("delete_node", "showwarning: Invalid Operation")
         /\ UNCHANGED <<graph, selection, drag, connecting, box, button_down, io>>
    ELSE IF ~answer
    THEN /\ last' = Report("delete_node", "askyesno: no")
         /\ ResetInteraction
         /\ UNCHANGED <<graph, drag, button_down, io>>
    ELSE /\ nodes' = DeleteFrom(nodes, selected_node)
         /\ ResetInteraction
         /\ last' = Report("delete_node", "Deleted node")
         /\ UNCHANGED <<next_node_id, next_var_index, drag, button_down, io>>

\* mutant: the selection is left as it was
delete_node_KeepsSelection(answer) ==
    IF selected_node = None
    THEN /\ last' = Report("delete_node", "showwarning: No Selection")
         /\ UNCHANGED <<graph, selection, drag, connecting, box, button_down, io>>
    ELSE IF selected_node \notin Keys(nodes)
    THEN /\ last' = Report("delete_node", "Selected node not found")
         /\ UNCHANGED <<graph, selection, drag, connecting, box, button_down, io>>
    ELSE IF Get(nodes, selected_node).is_terminal
    THEN /\ last' = Report("delete_node", "showwarning: Invalid Operation")
         /\ UNCHANGED <<graph, selection, drag, connecting, box, button_down, io>>
    ELSE IF ~answer
    THEN /\ last' = Report("delete_node", "askyesno: no")
         /\ UNCHANGED <<graph, selection, drag, connecting, box, button_down, io>>
    ELSE /\ nodes' = DeleteFrom(nodes, selected_node)
         /\ CancelConnecting
         /\ selecting_box' = FALSE
         /\ selection_rect' = FALSE
         /\ last' = Report("delete_node", "Deleted node")
         /\ UNCHANGED <<next_node_id, next_var_index, selection, drag,
                        selection_start_x, selection_start_y, selection_additive,
                        button_down, io>>

\* mutant: the label index goes back by one
delete_node_ReleasesLabel(answer) ==
    IF selected_node = None
    THEN /\ last' = Report("delete_node", "showwarning: No Selection")
         /\ UNCHANGED <<graph, selection, drag, connecting, box, button_down, io>>
    ELSE IF selected_node \notin Keys(nodes)
    THEN /\ last' = Report("delete_node", "Selected node not found")
         /\ UNCHANGED <<graph, selection, drag, connecting, box, button_down, io>>
    ELSE IF Get(nodes, selected_node).is_terminal
    THEN /\ last' = Report("delete_node", "showwarning: Invalid Operation")
         /\ UNCHANGED <<graph, selection, drag, connecting, box, button_down, io>>
    ELSE IF ~answer
    THEN /\ last' = Report("delete_node", "askyesno: no")
         /\ UNCHANGED <<graph, selection, drag, connecting, box, button_down, io>>
    ELSE /\ nodes' = DeleteFrom(nodes, selected_node)
         /\ ResetInteraction
         /\ next_var_index' = IF next_var_index > 0 THEN next_var_index - 1 ELSE 0
         /\ last' = Report("delete_node", "Deleted node")
         /\ UNCHANGED <<next_node_id, drag, button_down, io>>

delete_node(answer) ==
    IF selected_node = None
    THEN /\ last' = Report("delete_node", "showwarning: No Selection")
         /\ UNCHANGED <<graph, selection, drag, connecting, box, button_down, io>>
    ELSE IF selected_node \notin Keys(nodes)
    THEN /\ last' = Report("delete_node", "Selected node not found")
         /\ UNCHANGED <<graph, selection, drag, connecting, box, button_down, io>>
    ELSE IF Get(nodes, selected_node).is_terminal
    THEN /\ last' = Report("delete_node", "showwarning: Invalid Operation")
         /\ UNCHANGED <<graph, selection, drag, connecting, box, button_down, io>>
    ELSE IF ~answer
    THEN /\ last' = Report("delete_node", "askyesno: no")
         /\ UNCHANGED <<graph, selection, drag, connecting, box, button_down, io>>
    ELSE /\ nodes' = DeleteFrom(nodes, selected_node)
         /\ ResetInteraction
         /\ last' = Report("delete_node", "Deleted node")
         /\ UNCHANGED <<next_node_id, next_var_index, drag, button_down, io>>

cancel_operation ==
    /\ CancelConnecting
    /\ last' = Report("cancel_operation", "Operation cancelled - Ready")
    /\ UNCHANGED <<graph, selection, drag, box, button_down, io>>

\* mutant: the filter is inverted
ClearedNodes_Inverted(ns) ==
    LET kept == SelectSeq(ns, LAMBDA n : ~n.is_terminal)
    IN  [i \in DOMAIN kept |-> clear_edges(kept[i])]

\* the nodes clear_all keeps
ClearedNodes(ns) ==
    LET terminal_nodes == SelectSeq(ns, LAMBDA n : n.is_terminal)
    IN  [i \in DOMAIN terminal_nodes |-> clear_edges(terminal_nodes[i])]

\* mutant: the label index is not reset
clear_all_KeepsIndex(answer) ==
    IF ~answer
    THEN /\ last' = Report("clear_all", "askyesno: no")
         /\ UNCHANGED <<graph, selection, drag, connecting, box, button_down, io>>
    ELSE /\ nodes' = ClearedNodes(nodes)
         /\ ResetInteraction
         /\ last' = Report("clear_all", "Cleared all decision nodes")
         /\ UNCHANGED <<next_node_id, next_var_index, drag, button_down, io>>

\* mutant: a pending connection survives
clear_all_KeepsConnecting(answer) ==
    IF ~answer
    THEN /\ last' = Report("clear_all", "askyesno: no")
         /\ UNCHANGED <<graph, selection, drag, connecting, box, button_down, io>>
    ELSE /\ nodes' = ClearedNodes(nodes)
         /\ next_var_index' = 0
         /\ selected_node' = None
         /\ selected_nodes' = {}
         /\ selecting_box' = FALSE
         /\ selection_rect' = FALSE
         /\ last' = Report("clear_all", "Cleared all decision nodes")
         /\ UNCHANGED <<next_node_id, drag, connecting, selection_start_x,
                        selection_start_y, selection_additive, button_down, io>>

clear_all(answer) ==
    IF ~answer
    THEN /\ last' = Report("clear_all", "askyesno: no")
         /\ UNCHANGED <<graph, selection, drag, connecting, box, button_down, io>>
    ELSE /\ nodes' = ClearedNodes(nodes)
         /\ next_var_index' = 0
         /\ ResetInteraction
         /\ last' = Report("clear_all", "Cleared all decision nodes")
         /\ UNCHANGED <<next_node_id, drag, button_down, io>>

-----------------------------------------------------------------------------
(* Pointer events                                                          *)

\* mutant: the box always replaces the selection
start_selection_box_NeverAdditive(x, y, additive) ==
    /\ selecting_box' = TRUE
    /\ selection_additive' = FALSE
    /\ selection_start_x' = x
    /\ selection_start_y' = y
    /\ selection_rect' = TRUE

start_selection_box(x, y, additive) ==
    /\ selecting_box' = TRUE
    /\ selection_additive' = additive
    /\ selection_start_x' = x
    /\ selection_start_y' = y
    /\ selection_rect' = TRUE

\* mutant: the target of a connection becomes the selection
on_canvas_click_SelectsTarget(x, y, shift_held) ==
    LET clicked_node == find_node_at(nodes, x, y) IN
    /\ ~button_down
    /\ button_down' = TRUE
    /\ io' = io
    /\ IF connecting_mode
       THEN IF clicked_node # None
            THEN /\ IF connecting_from_node # None /\ connecting_from_node \in Keys(nodes)
                    THEN nodes' = Put(nodes, add_edge(Get(nodes, connecting_from_node),
                                                      clicked_node, connecting_edge_type))
                    ELSE nodes' = nodes
                 /\ CancelConnecting
                 /\ selected_node' = clicked_node
                 /\ selected_nodes' = {clicked_node}
                 /\ last' = Report("on_canvas_click", "Operation cancelled - Ready")
                 /\ UNCHANGED <<next_node_id, next_var_index, drag, box>>
            ELSE /\ last' = Report("on_canvas_click", "")
                 /\ UNCHANGED <<graph, selection, drag, connecting, box>>
       ELSE IF clicked_node # None
       THEN IF shift_held
            THEN IF clicked_node \in selected_nodes
                 THEN /\ selected_nodes' = selected_nodes \ {clicked_node}
                      /\ IF selected_node = clicked_node
                         THEN selected_node' \in NextIter(selected_nodes \ {clicked_node})
                         ELSE selected_node' = selected_node
                      /\ last' = Report("on_canvas_click", "Updated selection")
                      /\ UNCHANGED <<graph, drag, connecting, box>>
                 ELSE /\ selected_nodes' = selected_nodes \cup {clicked_node}
                      /\ selected_node' = clicked_node
                      /\ last' = Report("on_canvas_click", "Selected node (shift)")
                      /\ UNCHANGED <<graph, drag, connecting, box>>
            ELSE /\ selected_node' = clicked_node
                 /\ selected_nodes' = IF clicked_node \in selected_nodes
                                      THEN selected_nodes ELSE {clicked_node}
                 /\ dragging' = TRUE
                 /\ drag_start_x' = x
                 /\ drag_start_y' = y
                 /\ last' = Report("on_canvas_click", "Selected node")
                 /\ UNCHANGED <<graph, connecting, box>>
       ELSE /\ IF ~shift_held
               THEN selected_node' = None /\ selected_nodes' = {}
               ELSE UNCHANGED selection
            /\ start_selection_box(x, y, shift_held)
            /\ last' = Report("on_canvas_click", "Box select: drag to choose nodes")
            /\ UNCHANGED <<graph, drag, connecting>>

\* mutant: removing the primary from the selection leaves it the primary
on_canvas_click_KeepsPrimary(x, y, shift_held) ==
    LET clicked_node == find_node_at(nodes, x, y) IN
    /\ ~button_down
    /\ button_down' = TRUE
    /\ io' = io
    /\ IF connecting_mode
       THEN IF clicked_node # None
            THEN /\ IF connecting_from_node # None /\ connecting_from_node \in Keys(nodes)
                    THEN nodes' = Put(nodes, add_edge(Get(nodes, connecting_from_node),
                                                      clicked_node, connecting_edge_type))
                    ELSE nodes' = nodes
                 /\ CancelConnecting
                 /\ last' = Report("on_canvas_click", "Operation cancelled - Ready")
                 /\ UNCHANGED <<next_node_id, next_var_index, selection, drag, box>>
            ELSE /\ last' = Report("on_canvas_click", "")
                 /\ UNCHANGED <<graph, selection, drag, connecting, box>>
       ELSE IF clicked_node # None
       THEN IF shift_held
            THEN IF clicked_node \in selected_nodes
                 THEN /\ selected_nodes' = selected_nodes \ {clicked_node}
                      /\ selected_node' = selected_node
                      /\ last' = Report("on_canvas_click", "Updated selection")
                      /\ UNCHANGED <<graph, drag, connecting, box>>
                 ELSE /\ selected_nodes' = selected_nodes \cup {clicked_node}
                      /\ selected_node' = clicked_node
                      /\ last' = Report("on_canvas_click", "Selected node (shift)")
                      /\ UNCHANGED <<graph, drag, connecting, box>>
            ELSE /\ selected_node' = clicked_node
                 /\ selected_nodes' = IF clicked_node \in selected_nodes
                                      THEN selected_nodes ELSE {clicked_node}
                 /\ dragging' = TRUE
                 /\ drag_start_x' = x
                 /\ drag_start_y' = y
                 /\ last' = Report("on_canvas_click", "Selected node")
                 /\ UNCHANGED <<graph, connecting, box>>
       ELSE /\ IF ~shift_held
               THEN selected_node' = None /\ selected_nodes' = {}
               ELSE UNCHANGED selection
            /\ start_selection_box(x, y, shift_held)
            /\ last' = Report("on_canvas_click", "Box select: drag to choose nodes")
            /\ UNCHANGED <<graph, drag, connecting>>

\* mutant: a press on a selected node reduces the selection to that node
on_canvas_click_AlwaysSingle(x, y, shift_held) ==
    LET clicked_node == find_node_at(nodes, x, y) IN
    /\ ~button_down
    /\ button_down' = TRUE
    /\ io' = io
    /\ IF connecting_mode
       THEN IF clicked_node # None
            THEN /\ IF connecting_from_node # None /\ connecting_from_node \in Keys(nodes)
                    THEN nodes' = Put(nodes, add_edge(Get(nodes, connecting_from_node),
                                                      clicked_node, connecting_edge_type))
                    ELSE nodes' = nodes
                 /\ CancelConnecting
                 /\ last' = Report("on_canvas_click", "Operation cancelled - Ready")
                 /\ UNCHANGED <<next_node_id, next_var_index, selection, drag, box>>
            ELSE /\ last' = Report("on_canvas_click", "")
                 /\ UNCHANGED <<graph, selection, drag, connecting, box>>
       ELSE IF clicked_node # None
       THEN IF shift_held
            THEN IF clicked_node \in selected_nodes
                 THEN /\ selected_nodes' = selected_nodes \ {clicked_node}
                      /\ IF selected_node = clicked_node
                         THEN selected_node' \in NextIter(selected_nodes \ {clicked_node})
                         ELSE selected_node' = selected_node
                      /\ last' = Report("on_canvas_click", "Updated selection")
                      /\ UNCHANGED <<graph, drag, connecting, box>>
                 ELSE /\ selected_nodes' = selected_nodes \cup {clicked_node}
                      /\ selected_node' = clicked_node
                      /\ last' = Report("on_canvas_click", "Selected node (shift)")
                      /\ UNCHANGED <<graph, drag, connecting, box>>
            ELSE /\ selected_node' = clicked_node
                 /\ selected_nodes' = {clicked_node}
                 /\ dragging' = TRUE
                 /\ drag_start_x' = x
                 /\ drag_start_y' = y
                 /\ last' = Report("on_canvas_click", "Selected node")
                 /\ UNCHANGED <<graph, connecting, box>>
       ELSE /\ IF ~shift_held
               THEN selected_node' = None /\ selected_nodes' = {}
               ELSE UNCHANGED selection
            /\ start_selection_box(x, y, shift_held)
            /\ last' = Report("on_canvas_click", "Box select: drag to choose nodes")
            /\ UNCHANGED <<graph, drag, connecting>>

\* mutant: a press with the modifier that adds a node starts a drag
on_canvas_click_ShiftDrags(x, y, shift_held) ==
    LET clicked_node == find_node_at(nodes, x, y) IN
    /\ ~button_down
    /\ button_down' = TRUE
    /\ io' = io
    /\ IF connecting_mode
       THEN IF clicked_node # None
            THEN /\ IF connecting_from_node # None /\ connecting_from_node \in Keys(nodes)
                    THEN nodes' = Put(nodes, add_edge(Get(nodes, connecting_from_node),
                                                      clicked_node, connecting_edge_type))
                    ELSE nodes' = nodes
                 /\ CancelConnecting
                 /\ last' = Report("on_canvas_click", "Operation cancelled - Ready")
                 /\ UNCHANGED <<next_node_id, next_var_index, selection, drag, box>>
            ELSE /\ last' = Report("on_canvas_click", "")
                 /\ UNCHANGED <<graph, selection, drag, connecting, box>>
       ELSE IF clicked_node # None
       THEN IF shift_held
            THEN IF clicked_node \in selected_nodes
                 THEN /\ selected_nodes' = selected_nodes \ {clicked_node}
                      /\ IF selected_node = clicked_node
                         THEN selected_node' \in NextIter(selected_nodes \ {clicked_node})
                         ELSE selected_node' = selected_node
                      /\ last' = Report("on_canvas_click", "Updated selection")
                      /\ UNCHANGED <<graph, drag, connecting, box>>
                 ELSE /\ selected_nodes' = selected_nodes \cup {clicked_node}
                      /\ selected_node' = clicked_node
                      /\ dragging' = TRUE
                      /\ drag_start_x' = x
                      /\ drag_start_y' = y
                      /\ last' = Report("on_canvas_click", "Selected node (shift)")
                      /\ UNCHANGED <<graph, connecting, box>>
            ELSE /\ selected_node' = clicked_node
                 /\ selected_nodes' = IF clicked_node \in selected_nodes
                                      THEN selected_nodes ELSE {clicked_node}
                 /\ dragging' = TRUE
                 /\ drag_start_x' = x
                 /\ drag_start_y' = y
                 /\ last' = Report("on_canvas_click", "Selected node")
                 /\ UNCHANGED <<graph, connecting, box>>
       ELSE /\ IF ~shift_held
               THEN selected_node' = None /\ selected_nodes' = {}
               ELSE UNCHANGED selection
            /\ start_selection_box(x, y, shift_held)
            /\ last' = Report("on_canvas_click", "Box select: drag to choose nodes")
            /\ UNCHANGED <<graph, drag, connecting>>

on_canvas_click(x, y, shift_held) ==
    LET clicked_node == find_node_at(nodes, x, y) IN
    /\ ~button_down
    /\ button_down' = TRUE
    /\ io' = io
    /\ IF connecting_mode
       THEN IF clicked_node # None
            THEN /\ IF connecting_from_node # None /\ connecting_from_node \in Keys(nodes)
                    THEN nodes' = Put(nodes, add_edge(Get(nodes, connecting_from_node),
                                                      clicked_node, connecting_edge_type))
                    ELSE nodes' = nodes
                 /\ CancelConnecting
                 /\ last' = Report("on_canvas_click", "Operation cancelled - Ready")
                 /\ UNCHANGED <<next_node_id, next_var_index, selection, drag, box>>
            ELSE /\ last' = Report("on_canvas_click", "")
                 /\ UNCHANGED <<graph, selection, drag, connecting, box>>
       ELSE IF clicked_node # None
       THEN IF shift_held
            THEN IF clicked_node \in selected_nodes
                 THEN /\ selected_nodes' = selected_nodes \ {clicked_node}
                      /\ IF selected_node = clicked_node
                         THEN selected_node' \in NextIter(selected_nodes \ {clicked_node})
                         ELSE selected_node' = selected_node
                      /\ last' = Report("on_canvas_click", "Updated selection")
                      /\ UNCHANGED <<graph, drag, connecting, box>>
                 ELSE /\ selected_nodes' = selected_nodes \cup {clicked_node}
                      /\ selected_node' = clicked_node
                      /\ last' = Report("on_canvas_click", "Selected node (shift)")
                      /\ UNCHANGED <<graph, drag, connecting, box>>
            ELSE /\ selected_node' = clicked_node
                 /\ selected_nodes' = IF clicked_node \in selected_nodes
                                      THEN selected_nodes ELSE {clicked_node}
                 /\ dragging' = TRUE
                 /\ drag_start_x' = x
                 /\ drag_start_y' = y
                 /\ last' = Report("on_canvas_click", "Selected node")
                 /\ UNCHANGED <<graph, connecting, box>>
       ELSE /\ IF ~shift_held
               THEN selected_node' = None /\ selected_nodes' = {}
               ELSE UNCHANGED selection
            /\ start_selection_box(x, y, shift_held)
            /\ last' = Report("on_canvas_click", "Box select: drag to choose nodes")
            /\ UNCHANGED <<graph, drag, connecting>>

\* the nodes after every node whose id is in moving is moved by (dx, dy)
MoveNodes(ns, moving, dx, dy) ==
    [i \in DOMAIN ns |->
        IF ns[i].id \in moving
        THEN [ns[i] EXCEPT !.x = @ + dx, !.y = @ + dy]
        ELSE ns[i]]

\* mutant: the drag start stays at the press point
on_canvas_drag_KeepsStart(x, y) ==
    /\ button_down
    /\ UNCHANGED <<button_down, io>>
    /\ IF selecting_box
       THEN /\ last' = Report("on_canvas_drag", "update_selection_box")
            /\ UNCHANGED <<graph, selection, drag, connecting, box>>
       ELSE IF dragging /\ selected_node # None
       THEN LET dx == x - drag_start_x
                dy == y - drag_start_y
                moving == IF selected_node \in selected_nodes
                             /\ Cardinality(selected_nodes) > 1
                          THEN selected_nodes ELSE {selected_node}
                moved == MoveNodes(nodes, moving, dx, dy)
            IN  /\ \A i \in DOMAIN moved : InCanvas(moved[i].x, moved[i].y)
                /\ nodes' = moved
                /\ last' = Report("on_canvas_drag", "moved")
                /\ UNCHANGED <<next_node_id, next_var_index, selection, drag,
                               connecting, box>>
       ELSE /\ last' = Report("on_canvas_drag", "")
            /\ UNCHANGED <<graph, selection, drag, connecting, box>>

on_canvas_drag(x, y) ==
    /\ button_down
    /\ UNCHANGED <<button_down, io>>
    /\ IF selecting_box
       THEN /\ last' = Report("on_canvas_drag", "update_selection_box")
            /\ UNCHANGED <<graph, selection, drag, connecting, box>>
       ELSE IF dragging /\ selected_node # None
       THEN LET dx == x - drag_start_x
                dy == y - drag_start_y
                moving == IF selected_node \in selected_nodes
                             /\ Cardinality(selected_nodes) > 1
                          THEN selected_nodes ELSE {selected_node}
                moved == MoveNodes(nodes, moving, dx, dy)
            IN  /\ \A i \in DOMAIN moved : InCanvas(moved[i].x, moved[i].y)
                /\ nodes' = moved
                /\ drag_start_x' = x
                /\ drag_start_y' = y
                /\ last' = Report("on_canvas_drag", "moved")
                /\ UNCHANGED <<next_node_id, next_var_index, selection, dragging,
                               connecting, box>>
       ELSE /\ last' = Report("on_canvas_drag", "")
            /\ UNCHANGED <<graph, selection, drag, connecting, box>>

\* the ids finish_selection_box collects
\* mutant: a node on the edge of the box is left out
InBox_Strict(ns, x1, y1, x2, y2) ==
    {ns[i].id : i \in {j \in DOMAIN ns :
                          /\ x1 < ns[j].x /\ ns[j].x < x2
                          /\ y1 < ns[j].y /\ ns[j].y < y2}}

InBox(ns, x1, y1, x2, y2) ==
    {ns[i].id : i \in {j \in DOMAIN ns :
                          /\ x1 <= ns[j].x /\ ns[j].x <= x2
                          /\ y1 <= ns[j].y /\ ns[j].y <= y2}}

Min2(a, b) == IF a <= b THEN a ELSE b
Max2(a, b) == IF a >= b THEN a ELSE b

finish_selection_box(x, y) ==
    LET x1 == Min2(selection_start_x, x)
        y1 == Min2(selection_start_y, y)
        x2 == Max2(selection_start_x, x)
        y2 == Max2(selection_start_y, y)
        selected == InBox(nodes, x1, y1, x2, y2)
        result == IF selection_additive THEN selected_nodes \cup selected ELSE selected
    IN  /\ selecting_box' = FALSE
        /\ selection_rect' = FALSE
        /\ selected_nodes' = result
        /\ selected_node' \in NextIter(result)
        /\ last' = Report("on_canvas_release",
                          IF selected # {} THEN "Selected node(s)" ELSE "Ready")
        /\ UNCHANGED <<selection_start_x, selection_start_y, selection_additive>>

on_canvas_release(x, y) ==
    /\ button_down
    /\ button_down' = FALSE
    /\ io' = io
    /\ IF selecting_box
       THEN finish_selection_box(x, y)
       ELSE /\ last' = Report("on_canvas_release", "")
            /\ UNCHANGED <<selection, box>>
    /\ dragging' = FALSE
    /\ UNCHANGED <<graph, drag_start_x, drag_start_y, connecting>>

-----------------------------------------------------------------------------
(* Export and import                                                       *)

export_json(result) ==
    /\ last' = Report("export_json",
                      CASE result = "cancel" -> "Export cancelled"
                        [] result = "oserror" -> "showerror: Export Failed"
                        [] result = "saved" -> "Exported OBDD")
    /\ UNCHANGED <<graph, selection, drag, connecting, box, button_down, io>>

\* the nodes load_from_import installs
WithRoot(ns, root_id) ==
    [i \in DOMAIN ns |-> [ns[i] EXCEPT !.is_root = (ns[i].id = root_id)]]

\* mutant: the counters are left as they were
load_from_import_KeepsCounters(ns, root_id) ==
    /\ nodes' = WithRoot(ns, root_id)
    /\ UNCHANGED <<next_node_id, next_var_index>>
    /\ ResetInteraction

\* mutant: the selection survives the import
load_from_import_KeepsSelection(ns, root_id) ==
    /\ nodes' = WithRoot(ns, root_id)
    /\ next_node_id' = IF ns # <<>> THEN SetMax(Keys(ns)) + 1 ELSE 0
    /\ next_var_index' = Cardinality({i \in DOMAIN ns : ~ns[i].is_terminal})
    /\ CancelConnecting
    /\ selecting_box' = FALSE
    /\ selection_rect' = FALSE
    /\ UNCHANGED <<selection, selection_start_x, selection_start_y, selection_additive>>

\* mutant: the next node id is the number of imported nodes
load_from_import_CountsNodes(ns, root_id) ==
    /\ nodes' = WithRoot(ns, root_id)
    /\ next_node_id' = Len(ns)
    /\ next_var_index' = Cardinality({i \in DOMAIN ns : ~ns[i].is_terminal})
    /\ ResetInteraction

load_from_import(ns, root_id) ==
    /\ nodes' = WithRoot(ns, root_id)
    /\ next_node_id' = IF ns # <<>> THEN SetMax(Keys(ns)) + 1 ELSE 0
    /\ next_var_index' = Cardinality({i \in DOMAIN ns : ~ns[i].is_terminal})
    /\ ResetInteraction

\* mutant: the selection and the modes are reset before the document is validated
import_json_ResetsFirst(read, data) ==
    IF read = "cancel"
    THEN /\ last' = Report("import_json", "Import cancelled")
         /\ UNCHANGED <<graph, selection, drag, connecting, box, button_down, io>>
    ELSE IF read = "oserror" \/ from_dict(data).rule # 0
    THEN /\ last' = Report("import_json", "showerror: Import Failed")
         /\ ResetInteraction
         /\ UNCHANGED <<graph, drag, button_down, io>>
    ELSE /\ load_from_import(from_dict(data).nodes, from_dict(data).root_id)
         /\ last' = Report("import_json", "Imported OBDD")
         /\ UNCHANGED <<drag, button_down, io>>

\* read is "cancel" (no path chosen), "oserror" (load_json raises) or "data"
import_json(read, data) ==
    LET parsed == from_dict(data) IN
    IF read = "cancel"
    THEN /\ last' = Report("import_json", "Import cancelled")
         /\ UNCHANGED <<graph, selection, drag, connecting, box, button_down, io>>
    ELSE IF read = "oserror" \/ parsed.rule # 0
    THEN /\ last' = Report("import_json", "showerror: Import Failed")
         /\ UNCHANGED <<graph, selection, drag, connecting, box, button_down, io>>
    ELSE /\ load_from_import(parsed.nodes, parsed.root_id)
         /\ last' = Report("import_json", "Imported OBDD")
         /\ UNCHANGED <<drag, button_down, io>>

\* JSON documents
JsonEntry(id, label, x, y, is_terminal) ==
    [type |-> "dict", id |-> id, label |-> label, x |-> x, y |-> y,
     is_terminal |-> is_terminal]

JsonEdges(entry, low, high) ==
    [type |-> "dict", id |-> entry.id, label |-> entry.label, x |-> entry.x,
     y |-> entry.y, is_terminal |-> entry.is_terminal, low |-> low, high |-> high]

JsonDoc(items, root) ==
    [type |-> "dict", nodes |-> [type |-> "list", items |-> items], root |-> root]

E0 == JsonEntry(0, "0", Terminal0X, TerminalY, TRUE)
E1 == JsonEntry(1, "1", Terminal1X, TerminalY, TRUE)
E2 == JsonEntry(2, "p", DefaultX, DefaultY, FALSE)

\* terminals 0 and 1, and the root p with low -> 0 and high -> 1
DocScenario == JsonDoc(<<E0, E1, JsonEdges(E2, 0, 1)>>, 2)

\* two decision nodes that point at each other; q lies where terminal 0 usually
\* does, and terminal 0 lies left of p
DocTwo ==
    JsonDoc(<<JsonEntry(0, "0", Terminal0X, DefaultY, TRUE), E1,
              JsonEdges(E2, 3, 1),
              JsonEdges(JsonEntry(3, "q", Terminal0X, TerminalY, FALSE), 2, 0)>>, 3)

\* terminal entries that carry low and high, listed before the others; the
\* root is a terminal
DocTerminalEdges == JsonDoc(<<JsonEdges(E1, 0, 1), JsonEdges(E0, 1, 1)>>, 0)

\* no terminal labeled "1"
DocNoOne == JsonDoc(<<E0, JsonEdges(E2, 0, None)>>, None)

\* high names an id that is not in the document
DocDangling == JsonDoc(<<E0, E1, JsonEdges(E2, 0, 3)>>, 2)

\* the documents the editor is given to import, besides its own export
ImportDocs == {DocScenario, DocTwo, DocTerminalEdges, DocNoOne, DocDangling}

-----------------------------------------------------------------------------
(* The editor                                                              *)

Handle ==
    \/ \E label_input \in AskStringResults \cup {get_next_variable_label(next_var_index)} :
          add_decision_node(label_input)
    \/ set_root_node
    \/ \E edge_type \in {0, 1} : start_edge_connection(edge_type)
    \/ delete_outgoing_edges
    \/ \E answer \in BOOLEAN : delete_node(answer)
    \/ cancel_operation
    \/ \E answer \in BOOLEAN : ~button_down /\ clear_all(answer)
    \/ \E p \in PointerPoints, shift_held \in BOOLEAN : on_canvas_click(p[1], p[2], shift_held)
    \/ \E p \in PointerPoints : on_canvas_drag(p[1], p[2])
    \/ \E p \in PointerPoints : on_canvas_release(p[1], p[2])
    \/ \E result \in {"cancel", "saved"} : export_json(result)
    \/ \E read \in {"cancel", "oserror"} : import_json(read, JsonDoc(<<>>, None))
    \/ \E data \in ImportDocs \cup {to_dict(nodes, get_root_id(nodes))} :
          import_json("data", data)

\* history: the ids a confirmed delete_node or clear_all has removed, in the
\* whole session and since the last successful import
RecordDeleted ==
    LET removed == IF last'.op \in {"delete_node", "clear_all"}
                   THEN Keys(nodes) \ Keys(nodes') ELSE {}
        imported == last' = Report("import_json", "Imported OBDD")
    IN  deleted' = [session |-> deleted.session \cup removed,
                    since_import |-> IF imported THEN {}
                                     ELSE deleted.since_import \cup removed]

\* the gesture is recorded in SpecPointer only
Next ==
    /\ events < MaxEvents /\ events' = events + 1
    /\ Handle /\ RecordDeleted
    /\ UNCHANGED gesture

Spec == Init /\ [][Next]_vars

\* the editor over shorter behaviours, for the steps that import a document
MaxImportEvents == 5

NextImport ==
    /\ events < MaxImportEvents /\ events' = events + 1
    /\ Handle /\ RecordDeleted
    /\ UNCHANGED gesture

SpecImport == Init /\ [][NextImport]_vars

-----------------------------------------------------------------------------
(* The serializer on its own: from_dict applied to a bounded set of        *)
(* documents                                                               *)

\* the ids of the entries of SerEntries, and an id none of them has
SerIds == {0, 1, 2}
Absent == SetMax(SerIds) + 1

\* node entries: well-formed ones, and ones that break a rule of from_dict
SerEntries ==
    {JsonEntry(id, "0", 0, 0, TRUE) : id \in SerIds}
    \cup {JsonEntry(id, "1", 0, 0, TRUE) : id \in SerIds}
    \cup {JsonEntry(id, "p", 0, 0, FALSE) : id \in SerIds}
    \cup { JsonEdges(JsonEntry(2, "p", 0, 0, FALSE), 0, 1),
           JsonEdges(JsonEntry(2, "p", 0, 0, FALSE), Absent, None),
           JsonEdges(JsonEntry(2, "p", 0, 0, FALSE), None, Absent),
           JsonEdges(JsonEntry(0, "0", 0, 0, TRUE), Absent, None),
           JsonEntry(1, "1", 0, 0, FALSE),
           [type |-> "dict", id |-> 2, x |-> 0, y |-> 0, is_terminal |-> FALSE],
           [type |-> "dict", label |-> "p", x |-> 0, y |-> 0, is_terminal |-> FALSE],
           [type |-> "other"] }

\* the documents of at most max_len entries
SerDocs(max_len) ==
    {JsonDoc(items, root) :
        items \in UNION {[1..n -> SerEntries] : n \in 0..max_len},
        root \in {None, 2, Absent}}
    \cup { [type |-> "list"],
           [type |-> "dict", root |-> None],
           [type |-> "dict", nodes |-> [type |-> "null"], root |-> None],
           [type |-> "dict", nodes |-> [type |-> "other"], root |-> 2] }

InitSer ==
    /\ InitEditor
    /\ io \in {[phase |-> "input", data |-> d, result |-> Raise(0, "")] : d \in SerDocs(MaxDocLen)}

Parse ==
    /\ io.phase = "input"
    /\ io' = [phase |-> "parsed", data |-> io.data, result |-> from_dict(io.data)]
    /\ UNCHANGED <<graph, selection, drag, connecting, box, button_down, last, events, deleted,
                   gesture>>

NextSer == Parse

SpecSer == InitSer /\ [][NextSer]_vars

-----------------------------------------------------------------------------
(* class Node on its own: any sequence of add_edge and clear_edges calls   *)
(* on one node                                                             *)

NodeCall(node, op, target, kind) ==
    [phase |-> "node", node |-> node, op |-> op, target |-> target, kind |-> kind]

InitNode ==
    /\ InitEditor
    /\ io = NodeCall(Node(0, 100, 100, "p", FALSE), "init", None, None)

CallAddEdge(target, kind) ==
    /\ io' = NodeCall(add_edge(io.node, target, kind), "add_edge", target, kind)
    /\ UNCHANGED <<graph, selection, drag, connecting, box, button_down, last, events, deleted,
                   gesture>>

CallClearEdges ==
    /\ io' = NodeCall(clear_edges(io.node), "clear_edges", None, None)
    /\ UNCHANGED <<graph, selection, drag, connecting, box, button_down, last, events, deleted,
                   gesture>>

NextNode ==
    \/ \E target \in 0..MaxTarget, kind \in {0, 1} : CallAddEdge(target, kind)
    \/ CallClearEdges

SpecNode == InitNode /\ [][NextNode]_vars

-----------------------------------------------------------------------------
(* get_next_variable_label on its own: any sequence of calls with consume  *)
(* True or False, from index 0                                             *)

LabelCall(consume, index, label) ==
    [phase |-> "label", consume |-> consume, index |-> index, label |-> label]

CallNextVariableLabel(consume) ==
    /\ next_var_index < MaxLabelIndex
    /\ io' = LabelCall(consume, next_var_index, get_next_variable_label(next_var_index))
    /\ next_var_index' = IF consume THEN next_var_index + 1 ELSE next_var_index
    /\ UNCHANGED <<nodes, next_node_id, selection, drag, connecting, box, button_down,
                   last, events, deleted, gesture>>

NextLabel == \E consume \in BOOLEAN : CallNextVariableLabel(consume)

SpecLabel == Init /\ [][NextLabel]_vars

-----------------------------------------------------------------------------
(* The pointer handlers on their own: presses, moves and releases at more  *)
(* points, on the start graph or on an imported one                        *)

\* the pointer events handled in a behaviour of SpecPointer
MaxPointerEvents == 7

\* a point on the node at the default place, 10 right of and 5 above its
\* centre, and a point that no node of the start graph or of DocTwo covers
NearDefault == <<DefaultX + 10, DefaultY - 5>>
Corner == <<canvas_width \div 8, canvas_height \div 6>>

PointerPointsWide == PointerPoints \cup {NearDefault, Corner}

\* the gesture after a press at p
Pressed(p) ==
    [px |-> p[1], py |-> p[2], x |-> p[1], y |-> p[2], nodes |-> nodes',
     selected |-> selected_nodes',
     boxed |-> gesture.boxed /\ selected_nodes' = selected_nodes]

\* the gesture after the pointer has moved to p, or is released at p
MovedTo(p) ==
    [gesture EXCEPT !.x = p[1], !.y = p[2],
                    !.selected = IF selecting_box /\ ~selecting_box'
                                 THEN selected_nodes' ELSE @,
                    !.boxed = IF selecting_box /\ ~selecting_box' THEN TRUE ELSE @]

NextPointer ==
    /\ events < MaxPointerEvents /\ events' = events + 1
    /\ \/ import_json("data", DocTwo) /\ gesture' = NoGesture
       \/ \E p \in PointerPointsWide, shift_held \in BOOLEAN :
             on_canvas_click(p[1], p[2], shift_held) /\ gesture' = Pressed(p)
       \/ \E p \in PointerPointsWide : on_canvas_drag(p[1], p[2]) /\ gesture' = MovedTo(p)
       \/ \E p \in PointerPointsWide : on_canvas_release(p[1], p[2]) /\ gesture' = MovedTo(p)
    /\ RecordDeleted

SpecPointer == Init /\ [][NextPointer]_vars

-----------------------------------------------------------------------------
(* delete_node on a selection built with the pointer: nodes are added,     *)
(* pressed and deleted, and the gesture records the selection each press   *)
(* leaves                                                                  *)

\* the events handled in a behaviour of SpecDelete
MaxDeleteEvents == 6

NextDelete ==
    /\ events < MaxDeleteEvents /\ events' = events + 1
    /\ \/ add_decision_node("") /\ UNCHANGED gesture
       \/ \E p \in PointerPoints, shift_held \in BOOLEAN :
             on_canvas_click(p[1], p[2], shift_held) /\ gesture' = Pressed(p)
       \/ \E p \in PointerPoints : on_canvas_release(p[1], p[2]) /\ gesture' = MovedTo(p)
       \/ \E answer \in BOOLEAN : delete_node(answer) /\ UNCHANGED gesture
    /\ RecordDeleted

SpecDelete == Init /\ [][NextDelete]_vars

-----------------------------------------------------------------------------
(* The import rules, stated on the document                                *)

IsEntry(e) == e.type = "dict"
HasFields(e) == IsEntry(e) /\ \A k \in DOMAIN RequiredKeys : RequiredKeys[k] \in DOMAIN e

\* rule 1: the document is an object with a nodes list
Rule1Violated(data) ==
    data.type # "dict" \/ "nodes" \notin DOMAIN data \/ data.nodes.type # "list"

\* rule 2: every entry is an object with id, label, x, y, is_terminal
Rule2Violated(items) == \E i \in DOMAIN items : ~HasFields(items[i])

\* rule 3: no two entries share an id
Rule3Violated(items) ==
    \E i, j \in DOMAIN items :
        /\ i < j
        /\ IsEntry(items[i]) /\ "id" \in DOMAIN items[i]
        /\ IsEntry(items[j]) /\ "id" \in DOMAIN items[j]
        /\ items[i].id = items[j].id

EntryIds(items) ==
    {items[i].id : i \in {j \in DOMAIN items : IsEntry(items[j]) /\ "id" \in DOMAIN items[j]}}

TerminalLabeled(items, label) ==
    \E i \in DOMAIN items :
        /\ IsEntry(items[i])
        /\ "is_terminal" \in DOMAIN items[i] /\ items[i].is_terminal
        /\ "label" \in DOMAIN items[i] /\ items[i].label = label

\* rule 4: a terminal labeled "0" and a terminal labeled "1"
Rule4Violated(items) == ~TerminalLabeled(items, "0") \/ ~TerminalLabeled(items, "1")

\* rule 5: low and high of a non-terminal entry, when not null, name an entry
Rule5Violated(items) ==
    \E i \in DOMAIN items :
        /\ IsEntry(items[i])
        /\ "is_terminal" \in DOMAIN items[i] /\ ~items[i].is_terminal
        /\ \E k \in {"low", "high"} :
              /\ k \in DOMAIN items[i]
              /\ items[i][k] # None
              /\ items[i][k] \notin EntryIds(items)

\* rule 6: root, when not null, names an entry
Rule6Violated(data) ==
    "root" \in DOMAIN data /\ data.root # None /\ data.root \notin EntryIds(data.nodes.items)

ViolatedRules(data) ==
    IF Rule1Violated(data) THEN {1}
    ELSE (IF Rule2Violated(data.nodes.items) THEN {2} ELSE {})
         \cup (IF Rule3Violated(data.nodes.items) THEN {3} ELSE {})
         \cup (IF Rule4Violated(data.nodes.items) THEN {4} ELSE {})
         \cup (IF Rule5Violated(data.nodes.items) THEN {5} ELSE {})
         \cup (IF Rule6Violated(data) THEN {6} ELSE {})

-----------------------------------------------------------------------------
(* Properties of the graph                                                 *)

Targets(node) == {node.edges_out[k][1] : k \in DOMAIN node.edges_out}

Roots(ns) == {i \in DOMAIN ns : ns[i].is_root}

EdgesExist(ns) == \A i \in DOMAIN ns : Targets(ns[i]) \subseteq Keys(ns)
TerminalsBare(ns) == \A i \in DOMAIN ns : ns[i].is_terminal => ns[i].edges_out = <<>>
OneRoot(ns) == Cardinality(Roots(ns)) <= 1
HasTerminal(ns, label) ==
    \E i \in DOMAIN ns : ns[i].is_terminal /\ ns[i].label = label

DataModelInvariants(ns) ==
    /\ EdgesExist(ns) /\ TerminalsBare(ns) /\ OneRoot(ns)
    /\ HasTerminal(ns, "0") /\ HasTerminal(ns, "1")

Did(op, outcome) == last = Report(op, outcome)

\* C1: in every reachable state every outgoing edge of every node targets the
\* id of a node of the current node collection.
C1_EdgeTargetsExist == EdgesExist(nodes)

\* a node was deleted and a remaining node still has an edge
C1_Witness ==
    /\ Did("delete_node", "Deleted node")
    /\ \E i \in DOMAIN nodes : nodes[i].edges_out # <<>>

\* C2: for the graph G of any reachable state, which satisfies the data-model
\* invariants, from_dict(to_dict(G.nodes, G.root)) succeeds and, with the root
\* flag applied as load_from_import applies it, has the same ids and for every
\* id the same label, x, y, is_terminal, low target and high target, and the
\* same root id.
C2_RoundTrip ==
    LET result == from_dict(to_dict(nodes, get_root_id(nodes)))
        loaded == WithRoot(result.nodes, result.root_id)
    IN  DataModelInvariants(nodes) =>
          /\ result.rule = 0
          /\ Keys(loaded) = Keys(nodes)
          /\ Len(loaded) = Len(nodes)
          /\ \A id \in Keys(nodes) :
                LET a == Get(nodes, id)
                    b == Get(loaded, id)
                IN  /\ a.label = b.label /\ a.x = b.x /\ a.y = b.y
                    /\ a.is_terminal = b.is_terminal
                    /\ a.is_root = b.is_root
                    /\ get_edge_target(a, 0) = get_edge_target(b, 0)
                    /\ get_edge_target(a, 1) = get_edge_target(b, 1)
          /\ get_root_id(loaded) = get_root_id(nodes)

\* the root is a decision node whose low and high edges go to different nodes
C2_Witness ==
    \E i \in DOMAIN nodes :
        /\ nodes[i].is_root /\ Len(nodes[i].edges_out) = 2
        /\ nodes[i].edges_out[1][1] # nodes[i].edges_out[2][1]

\* C3: a step in which an import is rejected (the file cannot be read or
\* from_dict raises) changes nothing of the editor: nodes, next node id, label
\* index, selection, drag, connecting and box-selection state are as before.
C3_RejectedImportKeepsState ==
    [][last' = Report("import_json", "showerror: Import Failed")
         => UNCHANGED <<graph, selection, drag, connecting, box>>]_vars

\* an import was rejected while a node is selected and a connection is pending
C3_Witness ==
    /\ Did("import_json", "showerror: Import Failed")
    /\ selected_node # None /\ connecting_mode /\ Len(nodes) > 2

\* C4: from_dict rejects a document exactly when it violates one of the six
\* import rules.
C4_RejectsExactlyMalformed ==
    io.phase = "parsed" => ((io.result.rule # 0) <=> (ViolatedRules(io.data) # {}))

\* a document is rejected for its root alone: its non-terminal entry has edges
\* and every other rule passes
C4_Witness ==
    /\ io.phase = "parsed" /\ io.result.rule = 6
    /\ ViolatedRules(io.data) = {6}
    /\ \E i \in DOMAIN io.data.nodes.items : "low" \in DOMAIN io.data.nodes.items[i]

\* C5: when a document violates more than one import rule, the error from_dict
\* reports is the one of the lowest-numbered violated rule, wherever the
\* offending entries stand in the nodes list.
C5_LowestRuleReported ==
    (io.phase = "parsed" /\ Cardinality(ViolatedRules(io.data)) > 1)
        => io.result.rule = SetMin(ViolatedRules(io.data))

\* C6: a step in which delete_node deletes node n (the primary, a decision
\* node) leaves n out of the graph and no edge targeting n; if n was the root
\* no node is root; every other node stays, in the same order, with its label,
\* position, root flag and its edges to nodes other than n.
C6_DeleteCleansReferences ==
    [][last' = Report("delete_node", "Deleted node") =>
         LET n == selected_node
             others == SelectSeq(nodes, LAMBDA m : m.id # n)
         IN  /\ n \in Keys(nodes) /\ ~Get(nodes, n).is_terminal
             /\ n \notin Keys(nodes')
             /\ \A i \in DOMAIN nodes' : n \notin Targets(nodes'[i])
             /\ Get(nodes, n).is_root => Roots(nodes') = {}
             /\ Len(nodes') = Len(others)
             /\ \A i \in DOMAIN others :
                   /\ nodes'[i].id = others[i].id
                   /\ nodes'[i].label = others[i].label
                   /\ nodes'[i].x = others[i].x /\ nodes'[i].y = others[i].y
                   /\ nodes'[i].is_terminal = others[i].is_terminal
                   /\ nodes'[i].is_root = others[i].is_root
                   /\ nodes'[i].edges_out =
                         SelectSeq(others[i].edges_out, LAMBDA e : e[1] # n)
    ]_vars

\* the root q of DocTwo was deleted: p lost its low edge to q and kept its high
\* edge, and no node is root
C6_Witness ==
    /\ Did("delete_node", "Deleted node")
    /\ Keys(nodes) = {0, 1, 2}
    /\ Get(nodes, 2).edges_out = <<<<1, 1>>>>
    /\ Roots(nodes) = {}

\* C7: in every reachable state at most one node has is_root = true.
C7_AtMostOneRoot == OneRoot(nodes)

\* set_root_node made a terminal the root of a graph that has a decision node
C7_Witness ==
    /\ Did("set_root_node", "Set as root node")
    /\ \E i \in DOMAIN nodes : nodes[i].is_root /\ nodes[i].is_terminal
    /\ \E i \in DOMAIN nodes : ~nodes[i].is_terminal

\* C8: in every reachable state every terminal node has no outgoing edge.
C8_TerminalsHaveNoEdges == TerminalsBare(nodes)

\* DocTerminalEdges, whose terminal entries carry low and high, was imported
C8_Witness ==
    /\ Did("import_json", "Imported OBDD")
    /\ Len(nodes) = 2 /\ nodes[1].id = 1 /\ nodes[1].is_terminal

TerminalPrimary ==
    /\ selected_node # None /\ selected_node \in Keys(nodes)
    /\ Get(nodes, selected_node).is_terminal

TerminalCommands == {"delete_node", "start_edge_connection", "delete_outgoing_edges"}

Editor == <<graph, selection, drag, connecting, box>>

\* C9 (as claimed): delete_node, start_edge_connection and delete_outgoing_edges
\* with a terminal as primary each end in a warning and change nothing.
C9_TerminalCommandsRejected ==
    [][(TerminalPrimary /\ last'.op \in TerminalCommands) =>
          /\ last'.outcome = "showwarning: Invalid Operation"
          /\ UNCHANGED Editor
    ]_vars

\* C9 (amended): with a terminal as primary, delete_node and
\* start_edge_connection each end in the warning "Invalid Operation";
\* delete_outgoing_edges is not rejected, it reports that the node has no
\* outgoing edges; all three change nothing of nodes, edges, root, selection
\* and interaction mode.
C9_TerminalCommandsChangeNothing ==
    [][(TerminalPrimary /\ last'.op \in TerminalCommands) =>
          /\ last'.outcome = IF last'.op = "delete_outgoing_edges"
                             THEN "Node has no outgoing edges"
                             ELSE "showwarning: Invalid Operation"
          /\ UNCHANGED Editor
    ]_vars

\* start_edge_connection was rejected for a terminal primary
C9_Witness ==
    /\ Did("start_edge_connection", "showwarning: Invalid Operation")
    /\ TerminalPrimary

\* C10: in every reachable state the graph has a terminal labeled "0" and a
\* terminal labeled "1".
C10_TerminalsPresent == HasTerminal(nodes, "0") /\ HasTerminal(nodes, "1")

\* clear_all ran on a graph that had had decision nodes
C10_Witness ==
    /\ Did("clear_all", "Cleared all decision nodes")
    /\ next_node_id > 2

EdgesOfKind(node, kind) == SelectSeq(node.edges_out, LAMBDA e : e[2] = kind)

\* C11: every add_edge(target, kind) call leaves the node with exactly one edge
\* of that kind, targeting the new target, and the edges of the other kind as
\* they were; and after any sequence of add_edge and clear_edges calls the node
\* holds at most one edge per kind, so at most two edges.
C11_OneEdgePerKind ==
    /\ [](\A kind \in {0, 1} : Len(EdgesOfKind(io.node, kind)) <= 1)
    /\ [](Len(io.node.edges_out) <= 2)
    /\ [][io'.op = "add_edge" =>
            /\ EdgesOfKind(io'.node, io'.kind) = <<(<<io'.target, io'.kind>>)>>
            /\ EdgesOfKind(io'.node, 1 - io'.kind) = EdgesOfKind(io.node, 1 - io'.kind)
       ]_vars

\* add_edge replaced the low edge of a node that has a high edge
C11_Witness ==
    /\ io.phase = "node" /\ io.op = "add_edge" /\ io.kind = 0 /\ io.target = 3
    /\ io.node.edges_out = <<<<2, 1>>, <<3, 0>>>>

Letters == <<"p", "q", "r", "s", "t", "u", "v", "w", "x", "y", "z">>

\* C14: get_next_variable_label returns, at label index i, the i-th letter of
\* p..z when 0 <= i <= 10 and "p" followed by the decimal of i - 10 when
\* i >= 11 (p1 at index 11, p3 at index 13); a call with consume=False leaves
\* the index unchanged, a call with consume=True increases it by exactly 1.
C14_LabelAtIndex ==
    /\ [](io.phase = "label" =>
            /\ io.index >= 0
            /\ io.index <= 10 => io.label = Letters[io.index + 1]
            /\ io.index >= 11 => io.label = "p" \o ToString(io.index - 10)
            /\ io.index = 11 => io.label = "p1"
            /\ io.index = 13 => io.label = "p3")
    /\ [][io'.phase = "label" =>
            /\ io'.index = next_var_index
            /\ next_var_index' = IF io'.consume THEN next_var_index + 1
                                                ELSE next_var_index
       ]_vars

\* the call at index 13 consumed the index
C14_Witness ==
    io.phase = "label" /\ io.consume /\ io.index = 13 /\ next_var_index = 14

AddedNode == last' = Report("add_decision_node", "Added decision node")

\* C12 (as claimed): in any sequence of add, delete, clear-all and import
\* events, the id given to a newly added node is never the id of a node that was
\* deleted earlier in the session.
C12_IdNeverReused ==
    [][AddedNode => (next_node_id \in Keys(nodes') /\ next_node_id \notin deleted.session)]_vars

\* C12 (amended): the id given to a newly added node is never the id of a node
\* deleted since the last successful import (since the start when there was
\* none); an import sets the next id to one more than the largest imported id,
\* so an id deleted before the import can be given again.
C12_IdNotReusedSinceImport ==
    [][AddedNode =>
          (next_node_id \in Keys(nodes') /\ next_node_id \notin deleted.since_import)]_vars

\* a node was added after a deletion, with no import in between
C12_Witness ==
    /\ Did("add_decision_node", "Added decision node")
    /\ deleted.since_import # {}

Imported == last' = Report("import_json", "Imported OBDD")

DecisionCount(ns) == Cardinality({i \in DOMAIN ns : ~ns[i].is_terminal})

\* C13: a step that imports a document leaves the next node id one more than
\* the largest imported id and the label index equal to the number of
\* non-terminal imported nodes, and the node added right after the import gets
\* an id that no imported node has.
C13_CountersAfterImport ==
    [][/\ Imported =>
             (/\ next_node_id' = SetMax(Keys(nodes')) + 1
              /\ next_var_index' = DecisionCount(nodes')
              /\ next_node_id' \notin Keys(nodes'))
       /\ (last = Report("import_json", "Imported OBDD") /\ AddedNode) =>
             (/\ next_node_id \notin Keys(nodes)
              /\ Keys(nodes') = Keys(nodes) \cup {next_node_id})
      ]_vars

\* DocTwo was imported: ids 0..3, two decision nodes
C13_Witness ==
    /\ Did("import_json", "Imported OBDD")
    /\ Keys(nodes) = {0, 1, 2, 3} /\ next_node_id = 4 /\ next_var_index = 2

\* C15: a step in which the label prompt of add_decision_node is cancelled
\* creates no node and changes neither counter; nodes, edges, root, selection
\* and the interaction flags stay as they were.
C15_CancelledAddChangesNothing ==
    [][last' = Report("add_decision_node", "Add node cancelled") => UNCHANGED Editor]_vars

\* the prompt was cancelled with a decision node selected
C15_Witness ==
    /\ Did("add_decision_node", "Add node cancelled")
    /\ selected_node # None /\ selected_node \in Keys(nodes)
    /\ ~Get(nodes, selected_node).is_terminal

\* C16 (as claimed): a step that adds a node advances the label index only when
\* the node gets the suggested label; with another label the index stays.
C16_IndexAdvancesOnDefaultOnly ==
    [][AddedNode =>
          next_var_index' =
              IF Get(nodes', next_node_id).label = get_next_variable_label(next_var_index)
              THEN next_var_index + 1 ELSE next_var_index]_vars

\* C16 (amended): a step that adds a node creates it with the label the user
\* gave, or the suggested one when the input is empty, and advances the label
\* index by exactly 1 in both cases.
C16_IndexAdvancesOnEveryAdd ==
    [][AddedNode =>
          /\ Get(nodes', next_node_id).label
                \in {"a", get_next_variable_label(next_var_index)}
          /\ next_var_index' = next_var_index + 1]_vars

\* the first node was added with the label "a": the index is 1
C16_Witness ==
    /\ Did("add_decision_node", "Added decision node")
    /\ Len(nodes) = 3 /\ nodes[3].label = "a" /\ next_var_index = 1

\* C17: a step in which clear_all is confirmed leaves exactly the terminal
\* nodes there were, each with its id, label and position, no node with an
\* edge, and the label index 0, so that the next suggested label is p.
C17_ClearAllKeepsTerminals ==
    [][last' = Report("clear_all", "Cleared all decision nodes") =>
          LET terminals == SelectSeq(nodes, LAMBDA n : n.is_terminal)
          IN  /\ Len(nodes') = Len(terminals)
              /\ \A i \in DOMAIN terminals :
                    /\ nodes'[i].id = terminals[i].id
                    /\ nodes'[i].label = terminals[i].label
                    /\ nodes'[i].x = terminals[i].x /\ nodes'[i].y = terminals[i].y
                    /\ nodes'[i].is_terminal
              /\ \A i \in DOMAIN nodes' : nodes'[i].edges_out = <<>>
              /\ next_var_index' = 0
              /\ get_next_variable_label(next_var_index') = "p"
    ]_vars

\* clear_all removed two decision nodes
C17_Witness ==
    /\ Did("clear_all", "Cleared all decision nodes")
    /\ deleted.since_import = {2, 3} /\ Len(nodes) = 2

\* C18: right after a confirmed clear_all no node is root, whichever node was
\* root before, a terminal included.
C18_NoRootAfterClearAll ==
    Did("clear_all", "Cleared all decision nodes") => Roots(nodes) = {}

\* C19: in every reachable state at most one of the flags dragging,
\* selecting_box and connecting_mode is true.
C19_OneModeAtATime ==
    Cardinality({f \in {"dragging", "selecting_box", "connecting_mode"} :
                    \/ f = "dragging" /\ dragging
                    \/ f = "selecting_box" /\ selecting_box
                    \/ f = "connecting_mode" /\ connecting_mode}) <= 1

\* C20: in every reachable state with connecting_mode true the connecting
\* source is a node of the graph and is not a terminal; a step that removes
\* the source from the graph leaves connecting_mode false.
C20_ConnectingSourceExists ==
    /\ [](connecting_mode =>
            /\ connecting_from_node \in Keys(nodes)
            /\ ~Get(nodes, connecting_from_node).is_terminal)
    /\ [][(connecting_mode /\ connecting_from_node \notin Keys(nodes'))
            => ~connecting_mode']_vars

\* a connection from the decision node p is pending while the pointer button
\* that selected p is still held
C20_Witness ==
    /\ Did("start_edge_connection", "Click on target node to connect")
    /\ connecting_mode /\ connecting_from_node \in Keys(nodes)
    /\ Get(nodes, connecting_from_node).label = "p" /\ button_down

-----------------------------------------------------------------------------
(* Pointer interaction                                                     *)

\* no interaction is in progress after the step
IdleAfter == ~dragging' /\ ~selecting_box' /\ ~connecting_mode'

\* every node of after is the node of before at the same place, except that
\* the edges of the given kind of the node src may differ
SameButEdge(before, after, src, kind) ==
    /\ Len(after) = Len(before)
    /\ \A i \in DOMAIN before :
          /\ clear_edges(after[i]) = clear_edges(before[i])
          /\ \A k \in {0, 1} :
                \/ before[i].id = src /\ k = kind
                \/ EdgesOfKind(after[i], k) = EdgesOfKind(before[i], k)
          /\ Len(after[i].edges_out) =
                Len(EdgesOfKind(after[i], 0)) + Len(EdgesOfKind(after[i], 1))

\* C21: with a connection pending and no button held, a pointer press on a
\* node T leaves the source with exactly one edge of the pending kind, to T,
\* changes no other edge, no other node field, no counter and not the
\* selection, and leaves no interaction in progress; a press that hits no node
\* changes nothing of the graph or the selection and leaves the connection
\* pending with the same source and kind.
C21_ConnectingClick ==
    [][\A p \in PointerPoints, shift_held \in BOOLEAN :
          (connecting_mode /\ on_canvas_click(p[1], p[2], shift_held)) =>
             LET T == find_node_at(nodes, p[1], p[2]) IN
             IF T # None
             THEN /\ EdgesOfKind(Get(nodes', connecting_from_node), connecting_edge_type)
                        = << <<T, connecting_edge_type>> >>
                  /\ SameButEdge(nodes, nodes', connecting_from_node, connecting_edge_type)
                  /\ UNCHANGED <<next_node_id, next_var_index, selection>>
                  /\ IdleAfter
             ELSE /\ UNCHANGED <<graph, selection, connecting>>
                  /\ connecting_mode' /\ ~dragging' /\ ~selecting_box']_vars

\* the press on terminal 0 has replaced the high edge of p, which led to
\* terminal 1, and the low edge of p is as it was
C21_Witness ==
    /\ Did("on_canvas_click", "Operation cancelled - Ready")
    /\ \E i \in DOMAIN nodes :
          /\ nodes[i].label = "p"
          /\ nodes[i].edges_out = << <<0, 0>>, <<0, 1>> >>

\* exactly the connection is in progress, or exactly the selection box
OnlyConnecting == connecting_mode /\ ~dragging /\ ~selecting_box
OnlyBoxSelecting == selecting_box /\ ~dragging /\ ~connecting_mode

\* C22: cancel_operation handled while only a connection, or only a selection
\* box, is in progress leaves no interaction in progress and nodes, edges,
\* root, counters and selection as they were; the rectangle of a selection
\* box is discarded, so that the release that follows finds no box to finish.
C22_CancelLeavesIdle ==
    [][(last'.op = "cancel_operation" /\ (OnlyConnecting \/ OnlyBoxSelecting)) =>
          /\ IdleAfter
          /\ selection_rect' = FALSE
          /\ UNCHANGED <<graph, selection>>]_vars

\* C23: in every reachable state the primary selection, when there is one, is
\* a member of the selection set, and when the selection set is empty there
\* is no primary.
C23_PrimaryInSelection ==
    /\ selected_node # None => selected_node \in selected_nodes
    /\ selected_nodes = {} => selected_node = None

\* a press with the modifier has removed a node from the selection, and a
\* primary remains
C23_Witness ==
    /\ Did("on_canvas_click", "Updated selection")
    /\ selected_node # None /\ selected_node \in selected_nodes

Displaced(ns, moving, dx, dy) ==
    [i \in DOMAIN ns |->
        [id |-> ns[i].id,
         x |-> IF ns[i].id \in moving THEN ns[i].x + dx ELSE ns[i].x,
         y |-> IF ns[i].id \in moving THEN ns[i].y + dy ELSE ns[i].y,
         label |-> ns[i].label, is_terminal |-> ns[i].is_terminal,
         edges_out |-> ns[i].edges_out, is_root |-> ns[i].is_root]]

\* C25: while a drag started by an unmodified press on a node is in progress,
\* after any sequence of moves, every node of the selection is at its place
\* at the press plus the offset of the pointer from the press point, every
\* other node is where it was, the edges, labels and root flags are as at the
\* press, and the selection has the members it had right after the press.
C25_GroupDragFollowsPointer ==
    (button_down /\ dragging /\ selected_node # None) =>
        /\ selected_nodes = gesture.selected
        /\ nodes = Displaced(gesture.nodes, gesture.selected,
                             gesture.x - gesture.px, gesture.y - gesture.py)

\* the selection a box left has two or more nodes, one of them was pressed,
\* and the pointer is now 10 right of and 5 above the press point
C25_Witness ==
    /\ Did("on_canvas_drag", "moved")
    /\ gesture.boxed /\ Cardinality(selected_nodes) >= 2
    /\ gesture.x - gesture.px = 10 /\ gesture.y - gesture.py = -5
    /\ \E i \in DOMAIN nodes :
          /\ nodes[i].id \in selected_nodes
          /\ nodes[i].x = gesture.nodes[i].x + 10
          /\ nodes[i].y = gesture.nodes[i].y - 5

\* no interaction is in progress
Idle == ~dragging /\ ~selecting_box /\ ~connecting_mode

\* C26: with no interaction in progress, a press without the modifier on a
\* node N makes N the primary and starts a drag at the press point; the
\* selection set is kept when N is in it and becomes {N} otherwise; the graph
\* does not change.
C26_PressSelectsAndDrags ==
    [][\A p \in PointerPointsWide :
          LET N == find_node_at(nodes, p[1], p[2]) IN
          (Idle /\ N # None /\ on_canvas_click(p[1], p[2], FALSE)) =>
             /\ selected_node' = N
             /\ selected_nodes' = IF N \in selected_nodes THEN selected_nodes ELSE {N}
             /\ dragging' /\ drag_start_x' = p[1] /\ drag_start_y' = p[2]
             /\ ~selecting_box' /\ ~connecting_mode'
             /\ UNCHANGED graph]_vars

\* a node of a selection of two or more nodes was pressed and the selection
\* is as it was
C26_Witness ==
    /\ Did("on_canvas_click", "Selected node")
    /\ dragging /\ Cardinality(selected_nodes) >= 2 /\ selected_node \in selected_nodes
    /\ gesture.boxed

\* C27: with no interaction in progress, a press with the modifier on a node
\* N changes the membership of N only: an absent N is added and becomes the
\* primary; a present N is removed, and the primary afterwards is a member of
\* what remains, or absent when nothing remains. No interaction is in
\* progress afterwards, and a move that follows the press moves no node.
C27_ModifiedPressToggles ==
    /\ [][\A p \in PointerPointsWide :
             LET N == find_node_at(nodes, p[1], p[2]) IN
             (Idle /\ N # None /\ on_canvas_click(p[1], p[2], TRUE)) =>
                /\ IF N \in selected_nodes
                   THEN /\ selected_nodes' = selected_nodes \ {N}
                        /\ selected_nodes' = {} => selected_node' = None
                        /\ selected_nodes' # {} => selected_node' \in selected_nodes'
                   ELSE /\ selected_nodes' = selected_nodes \cup {N}
                        /\ selected_node' = N
                /\ IdleAfter
                /\ UNCHANGED graph]_vars
    /\ [][(/\ last \in {Report("on_canvas_click", "Updated selection"),
                        Report("on_canvas_click", "Selected node (shift)")}
           /\ last'.op = "on_canvas_drag") => UNCHANGED <<graph, selection>>]_vars

\* the only selected node was pressed with the modifier, which left nothing
\* selected, and the move that followed moved nothing
C27_Witness ==
    /\ Did("on_canvas_drag", "")
    /\ find_node_at(gesture.nodes, gesture.px, gesture.py) # None
    /\ <<gesture.x, gesture.y>> # <<gesture.px, gesture.py>>
    /\ ~dragging /\ ~selecting_box /\ selected_nodes = {} /\ selected_node = None
    /\ nodes = gesture.nodes

\* C28: with no interaction in progress, a press that hits no node starts the
\* selection box at the press point; without the modifier the selection is
\* emptied, there is no primary and the box is not additive; with the modifier
\* the selection and the primary are kept and the box is additive. The graph
\* does not change.
C28_EmptyPressStartsBox ==
    [][\A p \in PointerPointsWide, shift_held \in BOOLEAN :
          (/\ Idle /\ find_node_at(nodes, p[1], p[2]) = None
           /\ on_canvas_click(p[1], p[2], shift_held)) =>
             /\ selecting_box' /\ ~dragging' /\ ~connecting_mode'
             /\ selection_start_x' = p[1] /\ selection_start_y' = p[2]
             /\ selection_additive' = shift_held
             /\ IF shift_held
                THEN UNCHANGED selection
                ELSE selected_nodes' = {} /\ selected_node' = None
             /\ UNCHANGED graph]_vars

\* an additive box was started with a node selected
C28_Witness ==
    /\ Did("on_canvas_click", "Box select: drag to choose nodes")
    /\ selecting_box /\ selection_additive
    /\ selected_nodes # {} /\ selected_node \in selected_nodes

\* a lies between u and v, whichever is the smaller
Between(a, u, v) == (u <= a /\ a <= v) \/ (v <= a /\ a <= u)

\* C29: a release while only the selection box is in progress collects the
\* ids S of the nodes that lie in the rectangle between the origin and the
\* release point, edges included, whichever corner the origin is; the
\* selection becomes S, or its union with the previous selection when the box
\* is additive; the primary becomes a member of the result, or absent when it
\* is empty; no interaction is in progress afterwards and the graph does not
\* change.
C29_ReleaseSelectsBox ==
    [][\A p \in PointerPointsWide :
          (OnlyBoxSelecting /\ on_canvas_release(p[1], p[2])) =>
             LET S == {nodes[i].id : i \in {j \in DOMAIN nodes :
                          /\ Between(nodes[j].x, selection_start_x, p[1])
                          /\ Between(nodes[j].y, selection_start_y, p[2])}}
             IN  /\ selected_nodes' = IF selection_additive
                                      THEN selected_nodes \cup S ELSE S
                 /\ selected_nodes' = {} => selected_node' = None
                 /\ selected_nodes' # {} => selected_node' \in selected_nodes'
                 /\ IdleAfter
                 /\ UNCHANGED graph]_vars

\* an additive box drawn from right to left has added a node that lies on its
\* edge to a selection that had a node outside the box
C29_Witness ==
    /\ Did("on_canvas_release", "Selected node(s)")
    /\ selection_additive /\ gesture.x < gesture.px
    /\ \E i \in DOMAIN nodes :
          /\ nodes[i].id \in selected_nodes /\ nodes[i].x = gesture.x
          /\ Between(nodes[i].y, gesture.py, gesture.y)
    /\ \E i \in DOMAIN nodes :
          /\ nodes[i].id \in selected_nodes
          /\ ~Between(nodes[i].x, gesture.px, gesture.x)

SelectionCommands ==
    {"set_root_node", "start_edge_connection", "delete_outgoing_edges", "delete_node"}

\* C30: set_root_node, start_edge_connection, delete_outgoing_edges and
\* delete_node handled while there is no primary each end in the warning that
\* nothing is selected and leave nodes, edges, root, counters, selection and
\* the interaction flags as they were.
C30_NoSelectionRejected ==
    [][(selected_node = None /\ last'.op \in SelectionCommands) =>
          /\ last'.outcome = "showwarning: No Selection"
          /\ UNCHANGED Editor]_vars

\* a command was rejected for want of a selection in a graph that has a root
\* and a decision node
C30_Witness ==
    /\ last.op \in SelectionCommands /\ last.outcome = "showwarning: No Selection"
    /\ selected_node = None /\ Roots(nodes) # {} /\ DecisionCount(nodes) > 0

-----------------------------------------------------------------------------
(* Commands on the selection                                               *)

\* the node with everything but the root flag
WithoutRootFlag(node) == [node EXCEPT !.is_root = FALSE]

\* C31: set_root_node handled with a primary N, a decision node or a
\* terminal, is accepted and leaves N the only node with the root flag,
\* whichever node had it before; every edge, position and label, the
\* counters, the selection and the interaction flags are as they were.
C31_SetRootMovesFlagOnly ==
    [][(selected_node # None /\ last'.op = "set_root_node") =>
          /\ last'.outcome = "Set as root node"
          /\ Len(nodes') = Len(nodes)
          /\ \A i \in DOMAIN nodes :
                /\ WithoutRootFlag(nodes'[i]) = WithoutRootFlag(nodes[i])
                /\ nodes'[i].is_root = (nodes[i].id = selected_node)
          /\ Cardinality(Roots(nodes')) = 1
          /\ UNCHANGED <<next_node_id, next_var_index, selection, drag, connecting, box>>]_vars

\* a terminal was made root in a graph whose decision nodes have edges
C31_Witness ==
    /\ Did("set_root_node", "Set as root node")
    /\ TerminalPrimary /\ Get(nodes, selected_node).is_root
    /\ \E i \in DOMAIN nodes : nodes[i].edges_out # <<>>

\* C32: a step in which the confirmation of delete_node or of clear_all is
\* answered no changes nothing: nodes, edges, root, both counters, the
\* selection and the interaction flags are as before the command.
C32_AnswerNoChangesNothing ==
    [][last' \in {Report("delete_node", "askyesno: no"),
                  Report("clear_all", "askyesno: no")} => UNCHANGED Editor]_vars

\* the deletion of a selected decision node that has an edge was declined
\* while a connection from it was pending
C32_Witness ==
    /\ Did("delete_node", "askyesno: no")
    /\ connecting_mode /\ selected_node = connecting_from_node
    /\ selected_node \in Keys(nodes) /\ Get(nodes, selected_node).edges_out # <<>>

-----------------------------------------------------------------------------
(* Import as a replacement of the graph                                    *)

\* the node is the one the document entry describes: its fields, and for a
\* decision node at most one edge per kind, to the entry's low and high
IsNodeOf(node, entry) ==
    /\ node.id = entry.id /\ node.label = entry.label
    /\ node.x = entry.x /\ node.y = entry.y
    /\ node.is_terminal = entry.is_terminal
    /\ IF entry.is_terminal
       THEN node.edges_out = <<>>
       ELSE /\ get_edge_target(node, 0) = EntryGet(entry, "low")
            /\ get_edge_target(node, 1) = EntryGet(entry, "high")
            /\ \A kind \in {0, 1} : Len(EdgesOfKind(node, kind)) <= 1
            /\ Len(node.edges_out) =
                  Len(EdgesOfKind(node, 0)) + Len(EdgesOfKind(node, 1))

\* C33: a step that imports a document leaves exactly the nodes the document
\* lists, each as its entry describes it, whatever the graph held before; the
\* root is the node the document names as root, and no node when it names
\* none; the selection is empty, there is no primary, and neither a
\* connection nor a selection box is in progress.
C33_ImportReplacesGraph ==
    [][Imported =>
       \A data \in ImportDocs \cup {to_dict(nodes, get_root_id(nodes))} :
          import_json("data", data) =>
             LET items == data.nodes.items IN
             /\ Len(nodes') = Len(items)
             /\ Keys(nodes') = EntryIds(items)
             /\ \A k \in DOMAIN items : IsNodeOf(Get(nodes', items[k].id), items[k])
             /\ {nodes'[i].id : i \in Roots(nodes')} =
                   IF EntryGet(data, "root") = None THEN {} ELSE {data.root}
             /\ selected_nodes' = {} /\ selected_node' = None
             /\ ~connecting_mode' /\ ~selecting_box']_vars

\* DocTerminalEdges, which has the two terminals only and names terminal 0 as
\* root, was imported over a graph while a node of it was being dragged
C33_Witness ==
    /\ Did("import_json", "Imported OBDD")
    /\ dragging /\ button_down
    /\ Keys(nodes) = {0, 1} /\ get_root_id(nodes) = 0
    /\ selected_nodes = {} /\ selected_node = None

-----------------------------------------------------------------------------
(* The selection and the counters against the node collection              *)

\* C34: in every reachable state every id of the selection set, and the
\* primary when there is one, is a key of the node collection, so that the
\* lookups of the primary in set_root_node, start_edge_connection and
\* delete_outgoing_edges, and of every selected id in on_canvas_drag, find
\* their node.
C34_SelectionWithinNodes ==
    /\ selected_nodes \subseteq Keys(nodes)
    /\ selected_node # None => selected_node \in Keys(nodes)

\* two nodes are selected in a graph that a node was deleted from
C34_Witness ==
    /\ Cardinality(selected_nodes) >= 2 /\ selected_node \in selected_nodes
    /\ deleted.session # {} /\ deleted.session \cap Keys(nodes) = {}

\* C35: in every reachable state the next node id is greater than the id of
\* every node, and a step that adds a node leaves one node more, the new one
\* under the id that was next, and every node that was there as it was.
C35_NextIdIsFresh ==
    /\ [](\A id \in Keys(nodes) : id < next_node_id)
    /\ [][AddedNode =>
             /\ Len(nodes') = Len(nodes) + 1
             /\ Keys(nodes') = Keys(nodes) \cup {next_node_id}
             /\ next_node_id \notin Keys(nodes)
             /\ \A id \in Keys(nodes) : Get(nodes', id) = Get(nodes, id)]_vars

\* a node was added to a graph whose ids have a gap: the new id is above the
\* largest, not the first free one
C35_Witness ==
    /\ Did("add_decision_node", "Added decision node")
    /\ \E gap \in 0..MaxNodeId : gap < next_node_id - 1 /\ gap \notin Keys(nodes)
    /\ next_node_id - 1 \in Keys(nodes)

\* C36: a step in which delete_node is confirmed while two or more nodes are
\* selected removes the primary and no other node, so the other selected
\* nodes stay in the graph; the selection set is empty and the primary absent
\* afterwards, and the next node id and the label index are as they were.
C36_DeleteRemovesPrimaryOnly ==
    [][(last' = Report("delete_node", "Deleted node") /\ Cardinality(selected_nodes) >= 2) =>
          /\ Keys(nodes') = Keys(nodes) \ {selected_node}
          /\ Len(nodes') = Len(nodes) - 1
          /\ selected_nodes \ {selected_node} \subseteq Keys(nodes')
          /\ selected_nodes' = {} /\ selected_node' = None
          /\ UNCHANGED <<next_node_id, next_var_index>>]_vars

\* the press still held had left two or more nodes selected; the delete that
\* followed removed one of them, the others are in the graph and nothing is
\* selected
C36_Witness ==
    /\ Did("delete_node", "Deleted node")
    /\ button_down /\ ~dragging
    /\ Cardinality(gesture.selected) >= 2
    /\ Cardinality(gesture.selected \cap deleted.session) = 1
    /\ gesture.selected \ deleted.session \subseteq Keys(nodes)
    /\ Keys(gesture.nodes) \ Keys(nodes) \subseteq gesture.selected
    /\ selected_nodes = {} /\ selected_node = None

====
